---- MODULE Spec2Model ----
(***************************************************************************)
(* Job-feed ingestion back end of job-watch (functions/index.js).          *)
(*                                                                         *)
(* The file holds three generations of the back end.  The first (lines     *)
(* 1-916) is the queue-driven one: enqueueUserRun / pollUserTaskV2 /       *)
(* processUserFeeds / processOneFeed / upsertJobNoRead.  The third (lines  *)
(* 1585-2396) is the hourly sync: syncRecentJobsHourly / runSyncNow /      *)
(* syncUserRecentJobs.  Both are modelled here, over one document store.   *)
(*                                                                         *)
(* Documents are functions from field names to values, so that a merge     *)
(* write (set(..., {merge: true})) keeps the fields it does not name and a *)
(* reader sees a field the writer never wrote as missing.  A collection is *)
(* a function whose domain is the set of ids of its existing documents.    *)
(***************************************************************************)
EXTENDS Integers, Sequences, FiniteSets, TLC

\* ------------------------------------------------------------------ bounds
MaxRuns == 2            \* run documents created in one behaviour
MaxDups == 1            \* duplicate deliveries of an acknowledged task
LedgerRuns == 1         \* runs started in a behaviour of Spec
MaxPostings == 2        \* postings in one feed payload
MaxTicks == 1           \* milliseconds the clock advances
MaxFeeds     == 4   \* feed documents a tenant can have
MaxResponses == 4   \* answers of the feed's server to one fetchJson call
MaxSyncs == 1           \* invocations of the hourly sync in a behaviour
MaxRpcErrors == 1       \* pollNowV2 calls that end in an HttpsError before a run exists
MaxBadRequests == 1     \* runSyncNow requests without a userId

Users   == {"u1", "u2"}
FeedIds == {"f1", "f2"}
RunIds  == 1 .. MaxRuns

\* ------------------------------------------------------- program constants
FEED_CONCURRENCY      == 3
JOB_WRITE_CONCURRENCY == 25
FETCH_RETRIES         == 2
MAX_ERROR_SAMPLES     == 10
UPDATE_WINDOW_MS      == 60 * 60 * 1000
MaxAttempts           == 3

\* ------------------------------------------------------------ the clock
\* Instants are epoch milliseconds.  T0 is the wall-clock time of the
\* behaviour; the feeds publish timestamps around its recency cutoff.
T0 == 4 * UPDATE_WINDOW_MS

\* ------------------------------------------------------------------ values
Null == "null"

\* An ISO-8601 string as a feed sends it: absent, text that Date.parse
\* rejects, or text that parses to an instant.
IsoAbsent     == [kind |-> "absent",  ms |-> 0]
IsoGarbage    == [kind |-> "garbage", ms |-> 0]
IsoOf(ms)     == [kind |-> "iso",     ms |-> ms]

\* parseIsoToMs: null for an absent or unparseable string.  NoMs stands for
\* the null result; every instant is >= 0.
NoMs == -1
parseIsoToMs(iso) == IF iso.kind = "iso" THEN iso.ms ELSE NoMs

\* ------------------------------------------------------------ documents
Merge(doc, upd) ==
    [k \in (DOMAIN doc) \cup (DOMAIN upd) |->
        IF k \in DOMAIN upd THEN upd[k] ELSE doc[k]]

\* collection with document id written (created or replaced)
Put(col, id, doc) ==
    [x \in (DOMAIN col) \cup {id} |-> IF x = id THEN doc ELSE col[x]]

\* set(data, {merge: true}): creates the document when it is missing.  ver is
\* the document's update counter (Firestore's updateTime): every committed
\* write advances it.
SetMerge(col, id, upd) ==
    IF id \in DOMAIN col
      THEN Put(col, id, [Merge(col[id], upd) EXCEPT !.ver = col[id].ver + 1])
      ELSE Put(col, id, Merge([ver |-> 1], upd))

\* set(data): replaces the document
SetNew(col, id, data) == Put(col, id, Merge([ver |-> 1], data))

EmptyCol == [x \in {} |-> 0]

\* -------------------------------------------------------------- URLs
\* A feed URL is [kind, slug, query]: the host and path prefix that
\* detectFeedSource looks at, the path segment after boards / job-board that
\* the company-key inference reads, and the rest of the URL.
Url(kind, slug, query) == [kind |-> kind, slug |-> slug, query |-> query]
NoUrl == [kind |-> "none", slug |-> "", query |-> ""]

detectFeedSource(url) ==
    IF url.kind = "greenhouse" THEN "greenhouse"
    ELSE IF url.kind = "ashby" THEN "ashby"
    ELSE "unknown"

feedCompanyKey(feed) ==
    LET source == detectFeedSource(feed.url) IN
    IF source \in {"greenhouse", "ashby"}
      THEN (IF feed.url.slug # "" THEN feed.url.slug ELSE feed.id)
      ELSE feed.id

jobDocId(companyKey, jobId) == <<companyKey, jobId>>

\* ------------------------------------------------------------------ state
VARIABLES
    feeds,      \* users/{uid}/feeds      : [Users -> collection]
    companies,  \* users/{uid}/companies  : [Users -> collection]
    jobs,       \* users/{uid}/jobs       : [Users -> collection]
    fetchRuns,  \* users/{uid}/fetchRuns  : [Users -> collection]
    nextRun,    \* the next auto-generated run id (collection.doc())
    projectId,  \* process.env.GCLOUD_PROJECT etc., Null when none is set
    now,        \* the wall clock, in epoch milliseconds
    sched,      \* tenants the running scheduler tick has not handled yet
    enq,        \* [RunIds -> position of the enqueueUserRun call that made it]
    tasks,      \* [RunIds -> the task message of the run in the queue]
    w,          \* [RunIds -> the pollUserTaskV2 invocation working on it]
    syncRuns,   \* users/{uid}/syncRuns   : [Users -> collection]
    sync,       \* [SyncIds -> the invocation of the hourly / manual sync]
    rw,         \* [RunIds -> the read-then-write processUserFeeds call]
    rpcErrors,  \* the HttpsErrors pollNowV2 threw before a run document existed
    httpRes     \* the responses runSyncNow has sent, in order

vars == <<feeds, companies, jobs, fetchRuns, nextRun, projectId, now, sched,
          enq, tasks, w, syncRuns, sync, rw, rpcErrors, httpRes>>

storeVars == <<feeds, companies, jobs, fetchRuns>>

\* what the queue-driven back end never touches
syncVars == <<syncRuns, sync>>

\* the environment of the queue-driven back end
envVars == <<projectId, now, syncVars, rw, rpcErrors, httpRes>>

Terminal == {"done", "done_with_errors", "failed", "enqueue_failed",
             "skipped_lock_active"}

\* A feed document as the UI's addFeed writes it.
FeedDoc(url, source) ==
    [ver |-> 1, url |-> url, company |-> "Acme", source |-> source,
     active |-> TRUE, archivedAt |-> NoMs, lastError |-> Null,
     lastCheckedAt |-> NoMs]

InitFeeds ==
    [u \in Users |->
        IF u = "u1"
          THEN [f \in {"f1", "f2"} |->
                  IF f = "f1"
                    THEN FeedDoc(Url("greenhouse", "acme", ""), "greenhouse")
                    ELSE FeedDoc(Url("ashby", "globex", ""), "ashby")]
          ELSE [f \in {"f1"} |-> FeedDoc(Url("greenhouse", "beta", ""), "greenhouse")]]

NoEnq  == [st |-> "none", uid |-> "", runType |-> ""]
NoTask == [st |-> "none", attempts |-> 0, dups |-> 0, uid |-> "", runType |-> ""]
Idle   == [pc |-> "idle"]

\* the two entry points of the hourly sync back end, and an entry point at
\* rest: started counts the invocations it has begun
SyncIds == {"hourly", "manual"}
SyncIdle(n) == [pc |-> "idle", started |-> n]

Init ==
    /\ feeds = InitFeeds
    /\ companies = [u \in Users |-> EmptyCol]
    /\ jobs = [u \in Users |-> EmptyCol]
    /\ fetchRuns = [u \in Users |-> EmptyCol]
    /\ nextRun = 1
    /\ projectId \in {Null, "demo-project"}
    /\ now = T0
    /\ sched = {}
    /\ enq = [r \in RunIds |-> NoEnq]
    /\ tasks = [r \in RunIds |-> NoTask]
    /\ w = [r \in RunIds |-> Idle]
    /\ syncRuns = [u \in Users |-> EmptyCol]
    /\ sync = [s \in SyncIds |-> SyncIdle(0)]
    /\ rw = [r \in RunIds |-> Idle]
    /\ rpcErrors = <<>>
    /\ httpRes = <<>>

\* ------------------------------------------------------------ the UI
\* Home.jsx archiveFeed: sets the archive marker, leaves active as it is.
archiveFeed(u, f) ==
    /\ f \in DOMAIN feeds[u]
    /\ feeds[u][f].archivedAt = NoMs
    /\ feeds' = [feeds EXCEPT ![u] = SetMerge(@, f, [archivedAt |-> now])]
    /\ UNCHANGED <<companies, jobs, fetchRuns, nextRun, envVars, sched,
                   enq, tasks, w>>

\* Home.jsx addFeed: a new feed document, unless the page already lists a
\* feed with this URL.
addFeed(u, f, url) ==
    /\ f \notin DOMAIN feeds[u]
    /\ \A g \in DOMAIN feeds[u] : feeds[u][g].url # url
    /\ feeds' = [feeds EXCEPT ![u] = Put(@, f, FeedDoc(url, detectFeedSource(url)))]
    /\ UNCHANGED <<companies, jobs, fetchRuns, nextRun, envVars, sched,
                   enq, tasks, w>>

\* Home.jsx addFeed as the page's earlier version has it: any https URL is
\* taken, and the document gets neither a source nor an active field
\* (loadUserFeeds reads the missing active as true)
addFeedAnyUrl(u, f, url) ==
    /\ f \notin DOMAIN feeds[u]
    /\ \A g \in DOMAIN feeds[u] : feeds[u][g].url # url
    /\ feeds' = [feeds EXCEPT ![u] = Put(@, f, FeedDoc(url, Null))]
    /\ UNCHANGED <<companies, jobs, fetchRuns, nextRun, envVars, sched,
                   enq, tasks, w>>

\* Jobs.jsx toggleBookmark: updateDoc(doc(db, job._path), {saved: newState}),
\* where newState is the opposite of the flag the page holds for the job.
\* updateDoc fails on a document that does not exist.
toggleBookmark(u, id, newState) ==
    /\ id \in DOMAIN jobs[u]
    /\ jobs' = [jobs EXCEPT ![u] = SetMerge(@, id, [saved |-> newState])]
    /\ UNCHANGED <<feeds, companies, fetchRuns, nextRun, envVars, sched, enq,
                   tasks, w>>

\* ------------------------------------------------------- enqueueUserRun
\* createFetchRun: a new document with an auto id and the initial status.
createFetchRun(col, runId, runType, initialStatus) ==
    SetNew(col, runId, [runType |-> runType, status |-> initialStatus])

\* an enqueueUserRun that goes on to the queue without its run document
EnqCreateNoDocument(u, runType) ==
    /\ nextRun <= MaxRuns
    /\ fetchRuns' = fetchRuns
    /\ enq' = [enq EXCEPT ![nextRun] =
                  [st |-> "created", uid |-> u, runType |-> runType]]
    /\ nextRun' = nextRun + 1

\* enqueueUserRun up to and including createFetchRun.  caller is "manual"
\* (pollNowV2) or "scheduled" (one tenant of a scheduler tick).
EnqCreate(u, runType) ==
    /\ nextRun <= MaxRuns
    /\ fetchRuns' = [fetchRuns EXCEPT
                        ![u] = createFetchRun(@, nextRun, runType, "enqueued")]
    /\ enq' = [enq EXCEPT ![nextRun] =
                  [st |-> "created", uid |-> u, runType |-> runType]]
    /\ nextRun' = nextRun + 1

\* taskFunctionUri throws when no project id is set; the call is outside
\* enqueueUserRun's try block, so the error leaves the function.
EnqUriThrows(r) ==
    /\ enq[r].st = "created"
    /\ projectId = Null
    /\ enq' = [enq EXCEPT ![r].st = "threw"]
    /\ UNCHANGED <<storeVars, nextRun, envVars, sched, tasks, w>>

\* an enqueue whose message names a tenant other than the run's
EnqueueOkOtherTenant(r) ==
    /\ enq[r].st = "created"
    /\ projectId # Null
    /\ tasks' = [tasks EXCEPT ![r] =
                    [st |-> "queued", attempts |-> 0, dups |-> 0,
                     uid |-> CHOOSE v \in Users : v # enq[r].uid,
                     runType |-> enq[r].runType]]
    /\ enq' = [enq EXCEPT ![r].st = "ok"]
    /\ UNCHANGED <<storeVars, nextRun, envVars, sched, w>>

\* queue.enqueue accepted the message {uid, runType, runId}
EnqueueOk(r) ==
    /\ enq[r].st = "created"
    /\ projectId # Null
    /\ tasks' = [tasks EXCEPT ![r] =
                    [st |-> "queued", attempts |-> 0, dups |-> 0,
                     uid |-> enq[r].uid, runType |-> enq[r].runType]]
    /\ enq' = [enq EXCEPT ![r].st = "ok"]
    /\ UNCHANGED <<storeVars, nextRun, envVars, sched, w>>

\* queue.enqueue rejected: control enters the catch block
EnqueueFails(r) ==
    /\ enq[r].st = "created"
    /\ projectId # Null
    /\ enq' = [enq EXCEPT ![r].st = "catch"]
    /\ UNCHANGED <<storeVars, nextRun, envVars, sched, tasks, w>>

\* the catch block's ledger write, then the rethrow
EnqFailedWrite(r) ==
    /\ enq[r].st = "catch"
    /\ fetchRuns' = [fetchRuns EXCEPT ![enq[r].uid] =
                        SetMerge(@, r, [status |-> "enqueue_failed",
                                        enqueueError |-> "enqueue rejected"])]
    /\ enq' = [enq EXCEPT ![r].st = "threw"]
    /\ UNCHANGED <<feeds, companies, jobs, nextRun, envVars, sched, tasks, w>>

\* the catch block's ledger write fails: its error leaves the function
EnqFailedWriteFails(r) ==
    /\ enq[r].st = "catch"
    /\ enq' = [enq EXCEPT ![r].st = "threw"]
    /\ UNCHANGED <<storeVars, nextRun, envVars, sched, tasks, w>>

\* pollNowV2 for an authenticated caller
pollNowV2(u) ==
    /\ EnqCreate(u, "manual")
    /\ UNCHANGED <<feeds, companies, jobs, envVars, sched, tasks, w>>

\* what pollNowV2 leaves alone when it throws before a run document exists
rpcOther == <<storeVars, nextRun, projectId, now, syncVars, rw, sched, enq,
              tasks, w, httpRes>>

\* pollNowV2 without req.auth.uid: HttpsError("unauthenticated") before
\* enqueueUserRun is called
pollNowUnauthenticated ==
    /\ Len(rpcErrors) < MaxRpcErrors
    /\ rpcErrors' = Append(rpcErrors, [auth |-> Null, code |-> "unauthenticated"])
    /\ UNCHANGED rpcOther

\* pollNowV2 for an authenticated caller when createFetchRun's ref.set
\* fails: enqueueUserRun throws before its try block, pollNowV2's catch
\* turns the error into HttpsError("internal")
pollNowCreateFails(u) ==
    /\ Len(rpcErrors) < MaxRpcErrors
    /\ rpcErrors' = Append(rpcErrors, [auth |-> u, code |-> "internal"])
    /\ UNCHANGED rpcOther

\* pollGreenhouseFeedsV2: the tick reads the users collection ...
SchedulerTick ==
    /\ sched = {}
    /\ nextRun + Cardinality(Users) - 1 <= MaxRuns
    /\ sched' = Users
    /\ UNCHANGED <<storeVars, nextRun, envVars, enq, tasks, w>>

\* a scheduler that handles a tenant without taking it off its list
SchedulerEnqueueAgain(u) ==
    /\ u \in sched
    /\ EnqCreate(u, "scheduled")
    /\ UNCHANGED <<feeds, companies, jobs, envVars, sched, tasks, w>>

\* ... and calls enqueueUserRun(u.id, "scheduled") for each, under pLimit(50)
SchedulerEnqueue(u) ==
    /\ u \in sched
    /\ EnqCreate(u, "scheduled")
    /\ sched' = sched \ {u}
    /\ UNCHANGED <<feeds, companies, jobs, envVars, tasks, w>>

\* ... whose createFetchRun fails: the error is caught and logged by the
\* tenant's limitEnq task, no document and no message exist
SchedulerCreateFails(u) ==
    /\ u \in sched
    /\ sched' = sched \ {u}
    /\ UNCHANGED <<storeVars, nextRun, envVars, enq, tasks, w>>

\* ------------------------------------------------------------ postings
\* A raw posting of a feed payload.  Greenhouse sends updated_at,
\* first_published and location.name; Ashby sends publishedAt, location and
\* isRemote.  loc is the location text ("" when there is none).
Raw(id, upd, fp, pub, loc, isRemote) ==
    [id |-> id, updated_at |-> upd, first_published |-> fp,
     publishedAt |-> pub, loc |-> loc, isRemote |-> isRemote]

GhRaw(id, upd, fp, loc) == Raw(id, upd, fp, IsoAbsent, loc, FALSE)
AshbyRaw(id, pub, loc, isRemote) == Raw(id, IsoAbsent, IsoAbsent, pub, loc, isRemote)

NoEff == [ok |-> FALSE, ms |-> NoMs, iso |-> IsoAbsent, sourceField |-> "none"]
Eff(ms, iso, field) == [ok |-> TRUE, ms |-> ms, iso |-> iso, sourceField |-> field]

\* greenhouseEffectiveTime: the later of updated_at and first_published
greenhouseEffectiveTime(jobRaw) ==
    LET updIso == jobRaw.updated_at
        fpIso  == jobRaw.first_published
        updMs  == parseIsoToMs(updIso)
        fpMs   == parseIsoToMs(fpIso)
    IN  IF updMs = NoMs /\ fpMs = NoMs THEN NoEff
        ELSE IF updMs # NoMs /\ fpMs = NoMs THEN Eff(updMs, updIso, "updated_at")
        ELSE IF updMs = NoMs /\ fpMs # NoMs THEN Eff(fpMs, fpIso, "first_published")
        ELSE IF updMs >= fpMs THEN Eff(updMs, updIso, "updated_at")
        ELSE Eff(fpMs, fpIso, "first_published")

ashbyEffectiveTime(jobRaw) ==
    LET iso == jobRaw.publishedAt
        ms  == parseIsoToMs(iso)
    IN  IF ms = NoMs THEN NoEff ELSE Eff(ms, iso, "publishedAt")

\* a recency test that reads a posting of any other source as Greenhouse's
isJobWithinUpdateWindowAnySource(source, jobRaw, nowMs) ==
    LET cutoffMs == nowMs - UPDATE_WINDOW_MS IN
    IF source = "ashby"
      THEN LET eff == ashbyEffectiveTime(jobRaw) IN eff.ok /\ eff.ms >= cutoffMs
      ELSE LET eff == greenhouseEffectiveTime(jobRaw) IN eff.ok /\ eff.ms >= cutoffMs

isJobWithinUpdateWindow(source, jobRaw, nowMs) ==
    LET cutoffMs == nowMs - UPDATE_WINDOW_MS IN
    IF source = "greenhouse"
      THEN LET eff == greenhouseEffectiveTime(jobRaw) IN eff.ok /\ eff.ms >= cutoffMs
    ELSE IF source = "ashby"
      THEN LET eff == ashbyEffectiveTime(jobRaw) IN eff.ok /\ eff.ms >= cutoffMs
    ELSE FALSE

\* isoToTimestamp: the instant of the string, the current time when the
\* string does not parse
isoToTimestamp(iso, nowMs) ==
    IF parseIsoToMs(iso) = NoMs THEN nowMs ELSE parseIsoToMs(iso)

computeUpdatedAtForStorage(source, jobRaw, nowMs) ==
    LET eff == IF source = "greenhouse" THEN greenhouseEffectiveTime(jobRaw)
               ELSE IF source = "ashby" THEN ashbyEffectiveTime(jobRaw)
               ELSE NoEff
    IN  IF eff.ok
          THEN [updatedAtIso |-> eff.iso,
                updatedAtTs |-> isoToTimestamp(eff.iso, nowMs),
                updatedAtSource |-> eff.sourceField]
          ELSE [updatedAtIso |-> IsoOf(nowMs), updatedAtTs |-> nowMs,
                updatedAtSource |-> "fallback"]

\* ------------------------------------------------------------ locations
\* A location text is one of the texts below; LocFacts lists, for each, which
\* of the patterns the filters test for occur in it (upper-cased for
\* isUSLocation, lower-cased for isRemoteLocation).
LocFacts(loc) ==
    CASE loc = "New York, NY" ->
           [kw |-> FALSE, city |-> FALSE, state |-> TRUE, usWord |-> FALSE,
            remote |-> FALSE, usRemote |-> FALSE, excluded |-> FALSE]
      [] loc = "Remote - Germany" ->
           [kw |-> TRUE, city |-> FALSE, state |-> FALSE, usWord |-> FALSE,
            remote |-> TRUE, usRemote |-> FALSE, excluded |-> TRUE]
      [] loc = "Remote" ->
           [kw |-> TRUE, city |-> FALSE, state |-> FALSE, usWord |-> FALSE,
            remote |-> TRUE, usRemote |-> FALSE, excluded |-> FALSE]
      [] OTHER ->    \* "Berlin, Germany" and the empty text
           [kw |-> FALSE, city |-> FALSE, state |-> FALSE, usWord |-> FALSE,
            remote |-> FALSE, usRemote |-> FALSE, excluded |-> FALSE]

isUSLocation(loc) ==
    IF loc = "" THEN FALSE
    ELSE LET t == LocFacts(loc) IN t.kw \/ t.city \/ t.state \/ t.usWord

isRemoteLocation(loc) ==
    IF loc = "" THEN FALSE
    ELSE LET t == LocFacts(loc) IN
         IF ~t.remote THEN FALSE
         ELSE IF t.usRemote THEN TRUE
         ELSE ~t.excluded

shouldKeepJobByLocation(loc, jobRaw) ==
    IF jobRaw.isRemote THEN TRUE
    ELSE isUSLocation(loc) \/ isRemoteLocation(loc)

\* ------------------------------------------------------- feed payloads
\* A payload is [shape, jobs]: where in the JSON document the array of
\* postings sits ("jobs": json.jobs, "root": the document is the array,
\* "jobBoard": json.jobBoard.jobs).
Json(shape, js) == [shape |-> shape, jobs |-> js]

extractJobsFromFeedJson(source, json) ==
    IF source = "greenhouse"
      THEN (IF json.shape = "jobs" THEN json.jobs ELSE <<>>)
    ELSE IF source = "ashby"
      THEN (IF json.shape \in {"jobs", "root", "jobBoard"} THEN json.jobs ELSE <<>>)
    ELSE (IF json.shape \in {"jobs", "root"} THEN json.jobs ELSE <<>>)

\* processOneFeed's filter loop: recency first, then location
KeepRaw(source, j, nowMs) ==
    /\ isJobWithinUpdateWindow(source, j, nowMs)
    /\ (j.loc = "" \/ shouldKeepJobByLocation(j.loc, j))

\* normalizeJob, the fields the upsert and its readers depend on.
\* serverTimestamp() fields take the commit time.
normalizeJob(uid, feed, jobRaw, source, nowMs) ==
    LET upd == computeUpdatedAtForStorage(source, jobRaw, nowMs) IN
    [uid |-> uid, source |-> source, companyKey |-> feedCompanyKey(feed),
     jobId |-> jobRaw.id,
     updatedAtIso |-> upd.updatedAtIso, updatedAtTs |-> upd.updatedAtTs,
     updatedAtSource |-> upd.updatedAtSource,
     saved |-> FALSE,
     lastSeenAt |-> nowMs, lastIngestedAt |-> nowMs]

\* ------------------------------------------------------- loadUserFeeds
\* The snapshot lists the documents by id.
FeedOrder == <<"f1", "f2", "f3", "f4", "f5", "f6", "f7", "f8", "f9", "fa", "fb",
              "fc">>

FeedObj(col, f) ==
    [id |-> f, name |-> col[f].company, url |-> col[f].url,
     active |-> (col[f].active # FALSE), source |-> col[f].source]

loadUserFeeds(col) ==
    LET ids  == SelectSeq(FeedOrder, LAMBDA f : f \in DOMAIN col)
        objs == [i \in 1 .. Len(ids) |-> FeedObj(col, ids[i])]
    IN  SelectSeq(objs, LAMBDA o : o.url # NoUrl /\ o.active)

\* ------------------------------------------------------------ p-limit
\* pLimit(n) runs the first n tasks at once and starts the next queued one
\* each time a task settles.  A task is a record with a field st; idle is
\* the st of a task that waits for a slot, first the st it starts in, and
\* busy the sts of a task that holds a slot.
StartQueued(ts, n, idle, first, busy) ==
    LET waiting == {i \in DOMAIN ts : ts[i].st = idle}
        held    == Cardinality({i \in DOMAIN ts : ts[i].st \in busy})
    IN  IF waiting # {} /\ held < n
          THEN LET i == CHOOSE x \in waiting : \A y \in waiting : x <= y
               IN  [ts EXCEPT ![i].st = first]
          ELSE ts

FeedBusy  == {"fetch", "write", "company"}
WriteBusy == {"create", "set"}

\* feed tasks without a limiter: every feed starts at once
FeedTasksAllAtOnce(fs) ==
    [i \in 1 .. Len(fs) |->
        [st |-> "fetch", seen |-> <<>>, jobsRaw |-> <<>>, kept |-> <<>>,
         ws |-> <<>>, nowMs |-> NoMs, createdCount |-> 0, updatedCount |-> 0]]

\* the task records of feeds.map(limitFeed(...)) at the time of the call
FeedTasks(fs) ==
    [i \in 1 .. Len(fs) |->
        [st |-> IF i <= FEED_CONCURRENCY THEN "fetch" ELSE "pending",
         seen |-> <<>>, jobsRaw |-> <<>>, kept |-> <<>>, ws |-> <<>>,
         nowMs |-> NoMs, createdCount |-> 0, updatedCount |-> 0]]

\* the task records of keptRaw.map(limitWrite(...)) at the time of the call
\* att is the number of attempts of the current operation that have failed
\* (error.failedAttempts), err the code of the last error
WriteTasks(kept) ==
    [i \in 1 .. Len(kept) |->
        [st |-> IF i <= JOB_WRITE_CONCURRENCY THEN "create" ELSE "queued",
         att |-> 0, err |-> 0]]

AllSettled(wr) == \A i \in DOMAIN wr.ft : wr.ft[i].st \in {"ok", "failed"}

WritesPending(wr) ==
    \E i \in DOMAIN wr.ft : \E k \in DOMAIN wr.ft[i].ws :
        wr.ft[i].ws[k].st \in {"queued", "create", "set"}

\* ------------------------------------------------------------ the queue
\* Cloud Tasks hands the message to pollUserTaskV2.  The handler's guard
\* (!uid || !runId) never holds for a message enqueueUserRun built.
Deliver(r) ==
    /\ tasks[r].st = "queued"
    /\ w[r].pc = "idle"
    /\ tasks' = [tasks EXCEPT ![r].st = "dispatched", ![r].attempts = @ + 1]
    /\ w' = [w EXCEPT ![r] =
               [pc |-> "load", uid |-> tasks[r].uid, runType |-> tasks[r].runType,
                feeds |-> <<>>, ft |-> <<>>,
                processedTotal |-> 0, createdTotal |-> 0, updatedTotal |-> 0,
                errorsCount |-> 0, errorSamples |-> <<>>]]
    /\ UNCHANGED <<storeVars, nextRun, envVars, sched, enq>>

\* the handler returned: the task is acknowledged and leaves the queue
TaskReturn(r) ==
    /\ w[r].pc = "returned"
    /\ tasks' = [tasks EXCEPT ![r].st = "done"]
    /\ w' = [w EXCEPT ![r] = Idle]
    /\ UNCHANGED <<storeVars, nextRun, envVars, sched, enq>>

\* at-least-once delivery: the acknowledgement is lost and the message is
\* delivered again
TaskDuplicate(r) ==
    /\ w[r].pc = "returned"
    /\ tasks[r].dups < MaxDups
    /\ tasks' = [tasks EXCEPT ![r].st = "queued", ![r].dups = @ + 1]
    /\ w' = [w EXCEPT ![r] = Idle]
    /\ UNCHANGED <<storeVars, nextRun, envVars, sched, enq>>

\* retryConfig {maxAttempts: 3}: a failed attempt is retried until the
\* message has been tried MaxAttempts times
Retry(t) ==
    IF t.attempts < MaxAttempts THEN [t EXCEPT !.st = "queued"]
                                ELSE [t EXCEPT !.st = "dead"]

\* the handler threw
TaskThrow(r) ==
    /\ w[r].pc = "threw"
    /\ tasks' = [tasks EXCEPT ![r] = Retry(@)]
    /\ w' = [w EXCEPT ![r] = Idle]
    /\ UNCHANGED <<storeVars, nextRun, envVars, sched, enq>>

\* timeoutSeconds: 540: the invocation is cut off wherever it is
Timeout(r) ==
    /\ w[r].pc \notin {"idle", "returned", "threw"}
    /\ tasks' = [tasks EXCEPT ![r] = Retry(@)]
    /\ w' = [w EXCEPT ![r] = Idle]
    /\ UNCHANGED <<storeVars, nextRun, envVars, sched, enq>>

\* what a step of one invocation leaves alone besides the store
ctlVars == <<nextRun, envVars, sched, enq, tasks>>

\* ------------------------------------------------------ processUserFeeds
\* const feeds = await loadUserFeeds(uid)
LoadFeedsOk(r) ==
    /\ w[r].pc = "load"
    /\ w' = [w EXCEPT ![r].pc = "setRunning",
                      ![r].feeds = loadUserFeeds(feeds[w[r].uid])]
    /\ UNCHANGED <<storeVars, ctlVars>>

\* the read fails; it is outside processUserFeeds' try block, so the error
\* goes straight to the handler
LoadFeedsFails(r) ==
    /\ w[r].pc = "load"
    /\ w' = [w EXCEPT ![r].pc = "hcatch"]
    /\ UNCHANGED <<storeVars, ctlVars>>

RunningUpdate(wr) ==
    [runType |-> wr.runType, status |-> "running", feedsCount |-> Len(wr.feeds),
     processed |-> 0, createdCount |-> 0, updatedCount |-> 0,
     errorsCount |-> 0, errorSamples |-> <<>>]

\* the first ledger write, then feeds.map(limitFeed(...))
SetRunningOk(r) ==
    /\ w[r].pc = "setRunning"
    /\ fetchRuns' = [fetchRuns EXCEPT
                        ![w[r].uid] = SetMerge(@, r, RunningUpdate(w[r]))]
    /\ w' = [w EXCEPT ![r].pc = "feeds", ![r].ft = FeedTasks(w[r].feeds)]
    /\ UNCHANGED <<feeds, companies, jobs, ctlVars>>

\* the first ledger write fails, also outside the try block
SetRunningFails(r) ==
    /\ w[r].pc = "setRunning"
    /\ w' = [w EXCEPT ![r].pc = "hcatch"]
    /\ UNCHANGED <<storeVars, ctlVars>>

\* a feed task without a catch block of its own: the failure of one feed
\* rejects Promise.all and ends the run in processUserFeeds' catch block
FeedFailAbortsRun(wr, i, msg) ==
    [wr EXCEPT !.pc = "catch", !.ft[i].st = "failed"]

\* a catch block that keeps a sample of every failure
FeedFailKeepsAll(wr, i, msg) ==
    [wr EXCEPT
        !.errorsCount = @ + 1,
        !.errorSamples = Append(@, [url |-> wr.feeds[i].url, error |-> msg]),
        !.ft = StartQueued([@ EXCEPT ![i].st = "failed"],
                           FEED_CONCURRENCY, "pending", "fetch", FeedBusy)]

\* the catch block of one feed's task
FeedFail(wr, i, msg) ==
    [wr EXCEPT
        !.errorsCount = @ + 1,
        !.errorSamples = IF Len(@) < MAX_ERROR_SAMPLES
                           THEN Append(@, [url |-> wr.feeds[i].url, error |-> msg])
                           ELSE @,
        !.ft = StartQueued([@ EXCEPT ![i].st = "failed"],
                           FEED_CONCURRENCY, "pending", "fetch", FeedBusy)]

\* processOneFeed returned its summary
FeedOk(wr, i) ==
    [wr EXCEPT
        !.processedTotal = @ + Len(wr.ft[i].kept),
        !.createdTotal = @ + wr.ft[i].createdCount,
        !.updatedTotal = @ + wr.ft[i].updatedCount,
        !.ft = StartQueued([@ EXCEPT ![i].st = "ok"],
                           FEED_CONCURRENCY, "pending", "fetch", FeedBusy)]

FeedSource(feed) ==
    IF feed.source # Null THEN feed.source ELSE detectFeedSource(feed.url)

\* ------------------------------------------------------------- fetchJson
\* What one request of fetchJson meets: a 2xx answer whose body parses to
\* json, a 2xx answer whose body does not parse, an answer with another
\* status, the abort of the request by the timeout, or a network error.
\* named tells whether the message of the error that results contains
\* ECONNRESET, ETIMEDOUT, EAI_AGAIN or ENOTFOUND (for an HTTP error the
\* message holds the URL and the first 300 characters of the body).
OkResp(json)            == [kind |-> "ok", json |-> json, status |-> 200, named |-> FALSE]
BadJsonResp(named)      == [kind |-> "badjson", json |-> Null, status |-> 200, named |-> named]
HttpResp(status, named) == [kind |-> "http", json |-> Null, status |-> status, named |-> named]
AbortResp               == [kind |-> "abort", json |-> Null, status |-> 0, named |-> FALSE]
NetErrResp(named)       == [kind |-> "neterr", json |-> Null, status |-> 0, named |-> named]

isRetryableHttpStatus(status) == status \in {408, 425, 429, 500, 502, 503, 504}

\* a fetchJson that gives up after its first request
fetchJsonOnce(resps) ==
    IF resps[1].kind = "ok"
      THEN [ok |-> TRUE, json |-> resps[1].json, requests |-> 1, error |-> Null]
      ELSE [ok |-> FALSE, json |-> Null, requests |-> 1, error |-> resps[1].kind]

\* fetchJson(url), given the answers resps its requests meet in turn.  The
\* throw for an answer that is not ok is inside the try block, so the catch
\* block tests its message like that of any other error.
fetchJson(resps) ==
    LET RECURSIVE Loop(_)
        Loop(attempt) ==
            LET resp      == resps[attempt + 1]
                isAbort   == resp.kind = "abort"
                retryable == isAbort \/ resp.named
            IN  IF attempt > FETCH_RETRIES
                  THEN [ok |-> FALSE, json |-> Null, requests |-> attempt,
                        error |-> "Fetch failed after retries"]
                ELSE IF resp.kind = "ok"
                  THEN [ok |-> TRUE, json |-> resp.json,
                        requests |-> attempt + 1, error |-> Null]
                ELSE IF /\ resp.kind = "http"
                        /\ isRetryableHttpStatus(resp.status)
                        /\ attempt < FETCH_RETRIES
                  THEN Loop(attempt + 1)
                ELSE IF attempt < FETCH_RETRIES /\ retryable
                  THEN Loop(attempt + 1)
                ELSE [ok |-> FALSE, json |-> Null, requests |-> attempt + 1,
                      error |-> IF isAbort THEN "Timeout" ELSE resp.kind]
    IN  Loop(0)

\* ---------------------------------------------------------- processOneFeed
\* const json = await fetchJson(feed.url).  When it returns: filter, then
\* keptRaw.map(limitWrite(...)); with nothing kept, Promise.all([]) resolves,
\* the company write is skipped and the summary is returned.  When it
\* throws, the feed's task fails.  seen keeps the answers the call met.
FetchJson(r, i, resps) ==
    /\ w[r].pc = "feeds"
    /\ i \in DOMAIN w[r].ft
    /\ w[r].ft[i].st = "fetch"
    /\ LET res     == fetchJson(resps)
           wr0     == [w[r] EXCEPT ![ "ft" ][i].seen = SubSeq(resps, 1, res.requests)]
           source  == FeedSource(w[r].feeds[i])
           jobsRaw == extractJobsFromFeedJson(source, res.json)
           kept    == SelectSeq(jobsRaw, LAMBDA j : KeepRaw(source, j, now))
           wr1     == [wr0 EXCEPT ![ "ft" ][i] =
                         [@ EXCEPT !.st = "write", !.jobsRaw = jobsRaw,
                                   !.kept = kept, !.nowMs = now,
                                   !.ws = WriteTasks(kept)]]
       IN  w' = [w EXCEPT ![r] =
                   IF ~res.ok THEN FeedFail(wr0, i, res.error)
                   ELSE IF kept = <<>> THEN FeedOk(wr1, i)
                   ELSE wr1]
    /\ UNCHANGED <<storeVars, ctlVars>>

\* fetchJson returned json at its first request
FetchOk(r, i, json) == FetchJson(r, i, <<OkResp(json)>>)

\* fetchJson threw at its first request (a failure that is not retried)
FetchFails(r, i) == FetchJson(r, i, <<HttpResp(404, FALSE)>>)

\* one write task settled: the next queued one starts; when the last one is
\* done Promise.all resolves and the feed goes on to upsertCompanyDoc
WriteSettled(t, k, st) ==
    LET ws1 == StartQueued([t.ws EXCEPT ![k].st = st],
                           JOB_WRITE_CONCURRENCY, "queued", "create", WriteBusy)
        t1  == [t EXCEPT !.ws = ws1]
    IN  IF t1.st = "write" /\ \A x \in DOMAIN ws1 : ws1[x].st = "done"
          THEN [t1 EXCEPT !.st = "company"]
          ELSE t1

WriteEnabled(r, i, k, st) ==
    /\ w[r].pc = "feeds"
    /\ i \in DOMAIN w[r].ft
    /\ k \in DOMAIN w[r].ft[i].ws
    /\ w[r].ft[i].ws[k].st = st

JobDocIdOf(wr, i, k) == jobDocId(feedCompanyKey(wr.feeds[i]), wr.ft[i].kept[k].id)

Normalized(wr, i, k) ==
    normalizeJob(wr.uid, wr.feeds[i], wr.ft[i].kept[k], FeedSource(wr.feeds[i]), now)

\* upsertJobNoRead, bulkWriter.create: the document is created, or the store
\* answers ALREADY_EXISTS and the function falls back to set(merge).  Once
\* close() has been called the writer takes no new operation, so the
\* fallback of a task that outlived its feed is dropped.
JobCreate(r, i, k) ==
    /\ WriteEnabled(r, i, k, "create")
    /\ LET wr == w[r]
           u  == wr.uid
           id == JobDocIdOf(wr, i, k)
       IN  IF id \notin DOMAIN jobs[u]
             THEN /\ jobs' = [jobs EXCEPT ![u] =
                                SetNew(@, id, Merge(Normalized(wr, i, k),
                                    [createdAt |-> now, firstSeenAt |-> now]))]
                  /\ w' = [w EXCEPT ![r].ft[i] =
                             WriteSettled([@ EXCEPT !.createdCount = @ + 1], k, "done")]
             ELSE /\ jobs' = jobs
                  /\ w' = [w EXCEPT ![r].ft[i].ws[k] =
                             [@ EXCEPT !.st = IF AllSettled(wr) THEN "dropped"
                                                                ELSE "set",
                                       !.att = 0]]
    /\ UNCHANGED <<feeds, companies, fetchRuns, ctlVars>>

\* a fallback that merges normalized with the saved flag the document has
JobSetKeepsSaved(r, i, k) ==
    /\ WriteEnabled(r, i, k, "set")
    /\ LET wr == w[r]
           u  == wr.uid
           id == JobDocIdOf(wr, i, k)
           kept == IF id \in DOMAIN jobs[u] THEN jobs[u][id].saved ELSE FALSE
       IN  /\ jobs' = [jobs EXCEPT ![u] =
                         SetMerge(@, id, [Normalized(wr, i, k) EXCEPT
                                            !.saved = kept])]
           /\ w' = [w EXCEPT ![r].ft[i] =
                      WriteSettled([@ EXCEPT !.updatedCount = @ + 1], k, "done")]
    /\ UNCHANGED <<feeds, companies, fetchRuns, ctlVars>>

\* upsertJobNoRead, the fallback bulkWriter.set(ref, normalized, {merge: true})
JobSet(r, i, k) ==
    /\ WriteEnabled(r, i, k, "set")
    /\ LET wr == w[r]
           u  == wr.uid
           id == JobDocIdOf(wr, i, k)
       IN  /\ jobs' = [jobs EXCEPT ![u] = SetMerge(@, id, Normalized(wr, i, k))]
           /\ w' = [w EXCEPT ![r].ft[i] =
                      WriteSettled([@ EXCEPT !.updatedCount = @ + 1], k, "done")]
    /\ UNCHANGED <<feeds, companies, fetchRuns, ctlVars>>

\* a write is rejected with an error other than ALREADY_EXISTS: the task
\* throws, Promise.all rejects and processOneFeed throws (once per feed)
JobWriteFails(r, i, k) ==
    /\ \/ WriteEnabled(r, i, k, "create")
       \/ WriteEnabled(r, i, k, "set")
    /\ LET wr1 == [w[r] EXCEPT ![ "ft" ][i] = WriteSettled(@, k, "error")]
       IN  w' = [w EXCEPT ![r] = IF w[r].ft[i].st = "write"
                                   THEN FeedFail(wr1, i, "write failed")
                                   ELSE wr1]
    /\ UNCHANGED <<storeVars, ctlVars>>

\* the gRPC codes a write is rejected with here: DEADLINE_EXCEEDED,
\* PERMISSION_DENIED, RESOURCE_EXHAUSTED, ABORTED, INTERNAL, UNAVAILABLE
WriteErrorCodes == {4, 7, 8, 10, 13, 14}

MAX_FAILED_ATTEMPTS == 3

\* bulkWriter.onWriteError of processUserFeeds: true asks for another attempt
onWriteError(code, failedAttempts) ==
    LET retryable == code \in {4, 8, 10, 13, 14}
    IN  retryable /\ failedAttempts < MAX_FAILED_ATTEMPTS

\* one attempt of a job write fails with the given code: the writer asks
\* onWriteError, and either tries again or rejects the operation, which
\* makes the task throw as in JobWriteFails
JobWriteError(r, i, k, code) ==
    /\ \/ WriteEnabled(r, i, k, "create")
       \/ WriteEnabled(r, i, k, "set")
    /\ LET failedAttempts == w[r].ft[i].ws[k].att + 1
           wr0 == [w[r] EXCEPT ![ "ft" ][i].ws[k].att = failedAttempts,
                               ![ "ft" ][i].ws[k].err = code]
           wr1 == [wr0 EXCEPT ![ "ft" ][i] = WriteSettled(@, k, "error")]
       IN  w' = [w EXCEPT ![r] =
                   IF onWriteError(code, failedAttempts) THEN wr0
                   ELSE IF w[r].ft[i].st = "write"
                          THEN FeedFail(wr1, i, "write failed")
                          ELSE wr1]
    /\ UNCHANGED <<storeVars, ctlVars>>

CompanyDoc(feed) ==
    [companyKey |-> feedCompanyKey(feed), companyName |-> feed.name,
     lastSeenAt |-> now, url |-> feed.url, source |-> detectFeedSource(feed.url)]

\* an upsertCompanyDoc that writes the company under every tenant, as a
\* collection shared by the tenants would
CompanyOkEveryTenant(r, i) ==
    /\ w[r].pc = "feeds"
    /\ i \in DOMAIN w[r].ft
    /\ w[r].ft[i].st = "company"
    /\ companies' = [u \in Users |->
                        SetMerge(companies[u], feedCompanyKey(w[r].feeds[i]),
                                 CompanyDoc(w[r].feeds[i]))]
    /\ w' = [w EXCEPT ![r] = FeedOk(@, i)]
    /\ UNCHANGED <<feeds, jobs, fetchRuns, ctlVars>>

\* upsertCompanyDoc, then the summary
CompanyOk(r, i) ==
    /\ w[r].pc = "feeds"
    /\ i \in DOMAIN w[r].ft
    /\ w[r].ft[i].st = "company"
    /\ companies' = [companies EXCEPT ![w[r].uid] =
                        SetMerge(@, feedCompanyKey(w[r].feeds[i]),
                                 CompanyDoc(w[r].feeds[i]))]
    /\ w' = [w EXCEPT ![r] = FeedOk(@, i)]
    /\ UNCHANGED <<feeds, jobs, fetchRuns, ctlVars>>

CompanyFails(r, i) ==
    /\ w[r].pc = "feeds"
    /\ i \in DOMAIN w[r].ft
    /\ w[r].ft[i].st = "company"
    /\ w' = [w EXCEPT ![r] = FeedFail(@, i, "company write failed")]
    /\ UNCHANGED <<storeVars, ctlVars>>

\* ------------------------------------------- processUserFeeds, the ending
\* a close() that resolves without waiting for the operations in flight
CloseWithoutFlush(r) ==
    /\ w[r].pc = "feeds"
    /\ AllSettled(w[r])
    /\ w' = [w EXCEPT ![r].pc = "final"]
    /\ UNCHANGED <<storeVars, ctlVars>>

\* await bulkWriter.close(): resolves when every operation handed to the
\* writer has been flushed, and is never rejected (the outcome of each
\* operation goes to the operation's own promise)
CloseOk(r) ==
    /\ w[r].pc = "feeds"
    /\ AllSettled(w[r])
    /\ ~WritesPending(w[r])
    /\ w' = [w EXCEPT ![r].pc = "final"]
    /\ UNCHANGED <<storeVars, ctlVars>>

FinalUpdate(wr) ==
    [status |-> IF wr.errorsCount # 0 THEN "done_with_errors" ELSE "done",
     processed |-> wr.processedTotal, createdCount |-> wr.createdTotal,
     updatedCount |-> wr.updatedTotal, errorsCount |-> wr.errorsCount,
     errorSamples |-> wr.errorSamples]

\* the final ledger write; processUserFeeds returns, and so does the handler
FinalWriteOk(r) ==
    /\ w[r].pc = "final"
    /\ fetchRuns' = [fetchRuns EXCEPT
                        ![w[r].uid] = SetMerge(@, r, FinalUpdate(w[r]))]
    /\ w' = [w EXCEPT ![r].pc = "returned"]
    /\ UNCHANGED <<feeds, companies, jobs, ctlVars>>

FinalWriteFails(r) ==
    /\ w[r].pc = "final"
    /\ w' = [w EXCEPT ![r].pc = "catch"]
    /\ UNCHANGED <<storeVars, ctlVars>>

CatchUpdate(wr) ==
    [status |-> "failed", error |-> "error", errorsCount |-> wr.errorsCount,
     errorSamples |-> wr.errorSamples]

\* processUserFeeds' catch block: the ledger write, then the rethrow
CatchWriteOk(r) ==
    /\ w[r].pc = "catch"
    /\ fetchRuns' = [fetchRuns EXCEPT
                        ![w[r].uid] = SetMerge(@, r, CatchUpdate(w[r]))]
    /\ w' = [w EXCEPT ![r].pc = "hcatch"]
    /\ UNCHANGED <<feeds, companies, jobs, ctlVars>>

CatchWriteFails(r) ==
    /\ w[r].pc = "catch"
    /\ w' = [w EXCEPT ![r].pc = "hcatch"]
    /\ UNCHANGED <<storeVars, ctlVars>>

HandlerCatchUpdate == [status |-> "failed", error |-> "error"]

\* ---------------------------------------------- pollUserTaskV2, the catch
\* a handler whose catch block marks the run failed without the message
HandlerCatchWriteNoError(r) ==
    /\ w[r].pc = "hcatch"
    /\ fetchRuns' = [fetchRuns EXCEPT
                        ![w[r].uid] = SetNew(@, r, [status |-> "failed"])]
    /\ w' = [w EXCEPT ![r].pc = "threw"]
    /\ UNCHANGED <<feeds, companies, jobs, ctlVars>>

HandlerCatchWriteOk(r) ==
    /\ w[r].pc = "hcatch"
    /\ fetchRuns' = [fetchRuns EXCEPT
                        ![w[r].uid] = SetMerge(@, r, HandlerCatchUpdate)]
    /\ w' = [w EXCEPT ![r].pc = "threw"]
    /\ UNCHANGED <<feeds, companies, jobs, ctlVars>>

HandlerCatchWriteFails(r) ==
    /\ w[r].pc = "hcatch"
    /\ w' = [w EXCEPT ![r].pc = "threw"]
    /\ UNCHANGED <<storeVars, ctlVars>>

\* ======================================== the read-then-write generation
\* The second generation of the file: processUserFeeds is called by
\* pollNowV2 itself, makes its own run document, and processOneFeed reads
\* each job document before it writes it.
FEED_CONCURRENCY_RW == 8

parseUpdatedAtIso(jobRaw, nowMs) ==
    IF jobRaw.updated_at.kind # "absent" THEN jobRaw.updated_at
    ELSE IF jobRaw.first_published.kind # "absent" THEN jobRaw.first_published
    ELSE IsoOf(nowMs)

isoToTimestampRw(iso, nowMs) == IF iso.kind = "iso" THEN iso.ms ELSE nowMs

\* the segment after "boards" in the URL path, else the feed document's id
feedCompanyKeyRw(feed) ==
    IF feed.url.kind = "greenhouse" /\ feed.url.slug # ""
      THEN feed.url.slug ELSE feed.id

shouldKeepJobByLocationRw(loc) == isUSLocation(loc) \/ isRemoteLocation(loc)

normalizeJobRw(uid, feed, jobRaw, nowMs) ==
    LET iso == parseUpdatedAtIso(jobRaw, nowMs) IN
    [uid |-> uid, companyKey |-> feedCompanyKeyRw(feed), jobId |-> jobRaw.id,
     updatedAtIso |-> iso, updatedAtTs |-> isoToTimestampRw(iso, nowMs),
     lastSeenAt |-> nowMs, lastIngestedAt |-> nowMs]

loadUserFeedsRw(col) ==
    LET ids  == SelectSeq(FeedOrder, LAMBDA f : f \in DOMAIN col)
        objs == [i \in 1 .. Len(ids) |->
                    [id |-> ids[i], name |-> col[ids[i]].company,
                     url |-> col[ids[i]].url,
                     active |-> (col[ids[i]].active # FALSE)]]
    IN  SelectSeq(objs, LAMBDA o : o.url # NoUrl /\ o.active)

\* set(data, {merge: false}): replaces the document
SetReplace(col, id, data) ==
    IF id \in DOMAIN col
      THEN Put(col, id, Merge([ver |-> col[id].ver + 1], data))
      ELSE SetNew(col, id, data)

RwFeedBusy  == {"fetch", "write", "company"}
RwWriteBusy == {"get", "setNew", "setMerge"}

rwOther == <<feeds, projectId, now, sched, enq, tasks, w, syncVars, rpcErrors,
            httpRes>>

\* pollNowV2 of this generation: processUserFeeds(req.auth.uid, "manual")
pollNowRw(u) ==
    /\ nextRun \in RunIds
    /\ rw[nextRun].pc = "idle"
    /\ rw' = [rw EXCEPT ![nextRun] =
                 [pc |-> "load", uid |-> u, runType |-> "manual",
                  feeds |-> <<>>, ft |-> <<>>, processedTotal |-> 0,
                  newTotal |-> 0, errorSamples |-> <<>>]]
    /\ nextRun' = nextRun + 1
    /\ UNCHANGED <<storeVars, rwOther>>

\* const feeds = await loadUserFeeds(uid)
RwLoadFeeds(r) ==
    /\ rw[r].pc = "load"
    /\ rw' = [rw EXCEPT ![r].pc = "setRunning",
                        ![r].feeds = loadUserFeedsRw(feeds[rw[r].uid])]
    /\ UNCHANGED <<storeVars, nextRun, rwOther>>

\* runRef.set({status: "running", ...}), then feeds.map(limitFeed(...))
RwSetRunning(r) ==
    /\ rw[r].pc = "setRunning"
    /\ fetchRuns' = [fetchRuns EXCEPT ![rw[r].uid] =
                        SetNew(@, r, [runType |-> rw[r].runType, status |-> "running",
                                      feedsCount |-> Len(rw[r].feeds)])]
    /\ rw' = [rw EXCEPT ![r].pc = "feeds",
                        ![r].ft = [i \in 1 .. Len(rw[r].feeds) |->
                                     [st |-> IF i <= FEED_CONCURRENCY_RW
                                               THEN "fetch" ELSE "pending",
                                      fetched |-> 0, kept |-> <<>>, ws |-> <<>>,
                                      newCount |-> 0]]]
    /\ UNCHANGED <<feeds, companies, jobs, nextRun, rwOther>>

\* the feed's task ends: the summary is added up, or the error is sampled
RwFeedEnds(x, i, st) ==
    LET ok == st = "ok" IN
    [x EXCEPT
        !.processedTotal = IF ok THEN @ + Len(x.ft[i].kept) ELSE @,
        !.newTotal = IF ok THEN @ + x.ft[i].newCount ELSE @,
        !.errorSamples = IF ok THEN @
                         ELSE Append(@, [url |-> x.feeds[i].url, message |-> "error"]),
        !.ft = StartQueued([@ EXCEPT ![i].st = st],
                           FEED_CONCURRENCY_RW, "pending", "fetch", RwFeedBusy)]

\* processOneFeed up to kept.map(limitWrite(...)): the location filter only
RwFetchOk(r, i, json) ==
    /\ rw[r].pc = "feeds"
    /\ i \in DOMAIN rw[r].ft
    /\ rw[r].ft[i].st = "fetch"
    /\ LET js   == IF json.shape = "jobs" THEN json.jobs ELSE <<>>
           kept == SelectSeq(js, LAMBDA j : shouldKeepJobByLocationRw(j.loc))
       IN  rw' = [rw EXCEPT ![r].ft[i] =
                    [st |-> IF kept = <<>> THEN "company" ELSE "write",
                     fetched |-> Len(js), kept |-> kept,
                     ws |-> [k \in 1 .. Len(kept) |->
                               [st |-> IF k <= JOB_WRITE_CONCURRENCY
                                         THEN "get" ELSE "queued",
                                prev |-> Null]],
                     newCount |-> 0]]
    /\ UNCHANGED <<storeVars, nextRun, rwOther>>

\* fetchJson threw: one request, no retry
RwFetchFails(r, i) ==
    /\ rw[r].pc = "feeds"
    /\ i \in DOMAIN rw[r].ft
    /\ rw[r].ft[i].st = "fetch"
    /\ rw' = [rw EXCEPT ![r] = RwFeedEnds(@, i, "failed")]
    /\ UNCHANGED <<storeVars, nextRun, rwOther>>

RwDocId(x, i, k) == jobDocId(feedCompanyKeyRw(x.feeds[i]), x.ft[i].kept[k].id)

\* const snap = await ref.get(); a missing document is counted as new
RwGet(r, i, k) ==
    /\ rw[r].pc = "feeds"
    /\ i \in DOMAIN rw[r].ft /\ k \in DOMAIN rw[r].ft[i].ws
    /\ rw[r].ft[i].ws[k].st = "get"
    /\ LET col == jobs[rw[r].uid]
           id  == RwDocId(rw[r], i, k)
       IN  rw' = IF id \in DOMAIN col
                   THEN [rw EXCEPT ![r].ft[i].ws[k] =
                           [st |-> "setMerge",
                            prev |-> [createdAt |-> col[id].createdAt,
                                      firstSeenAt |-> col[id].firstSeenAt,
                                      saved |-> col[id].saved]]]
                   ELSE [rw EXCEPT ![r].ft[i].ws[k].st = "setNew",
                                   ![r].ft[i].newCount = @ + 1]
    /\ UNCHANGED <<storeVars, nextRun, rwOther>>

\* the write that follows the read: set(merge: false) of a new document,
\* set(merge: true) with the fields kept from the snapshot otherwise
RwSet(r, i, k) ==
    /\ rw[r].pc = "feeds"
    /\ i \in DOMAIN rw[r].ft /\ k \in DOMAIN rw[r].ft[i].ws
    /\ rw[r].ft[i].ws[k].st \in {"setNew", "setMerge"}
    /\ LET x  == rw[r]
           t  == x.ft[i]
           id == RwDocId(x, i, k)
           n  == normalizeJobRw(x.uid, x.feeds[i], t.kept[k], now)
           ws1 == StartQueued([t.ws EXCEPT ![k].st = "done"],
                              JOB_WRITE_CONCURRENCY, "queued", "get", RwWriteBusy)
       IN  /\ jobs' = [jobs EXCEPT ![x.uid] =
                         IF t.ws[k].st = "setNew"
                           THEN SetReplace(@, id, Merge(n,
                                   [createdAt |-> now, firstSeenAt |-> now,
                                    saved |-> FALSE]))
                           ELSE SetMerge(@, id, Merge(n, t.ws[k].prev))]
           /\ rw' = [rw EXCEPT ![r].ft[i].ws = ws1,
                               ![r].ft[i].st =
                                   IF \A y \in DOMAIN ws1 : ws1[y].st = "done"
                                     THEN "company" ELSE @]
    /\ UNCHANGED <<feeds, companies, fetchRuns, nextRun, rwOther>>

\* upsertCompanyDoc, whatever was kept, then the summary
RwCompany(r, i) ==
    /\ rw[r].pc = "feeds"
    /\ i \in DOMAIN rw[r].ft
    /\ rw[r].ft[i].st = "company"
    /\ LET feed == rw[r].feeds[i] IN
       companies' = [companies EXCEPT ![rw[r].uid] =
                        SetMerge(@, feedCompanyKeyRw(feed),
                                 [companyKey |-> feedCompanyKeyRw(feed),
                                  companyName |-> feed.name,
                                  lastSeenAt |-> now, url |-> feed.url])]
    /\ rw' = [rw EXCEPT ![r] = RwFeedEnds(@, i, "ok")]
    /\ UNCHANGED <<feeds, jobs, fetchRuns, nextRun, rwOther>>

\* the final ledger write; processUserFeeds returns its totals
RwFinal(r) ==
    /\ rw[r].pc = "feeds"
    /\ \A i \in DOMAIN rw[r].ft : rw[r].ft[i].st \in {"ok", "failed"}
    /\ fetchRuns' = [fetchRuns EXCEPT ![rw[r].uid] =
          SetMerge(@, r,
             [status |-> IF rw[r].errorSamples # <<>> THEN "done_with_errors"
                                                      ELSE "done",
              processed |-> rw[r].processedTotal, newCount |-> rw[r].newTotal,
              errorsCount |-> Len(rw[r].errorSamples),
              errorSamples |-> SubSeq(rw[r].errorSamples, 1,
                                      IF Len(rw[r].errorSamples) < 10
                                        THEN Len(rw[r].errorSamples) ELSE 10)])]
    /\ rw' = [rw EXCEPT ![r] = Idle]
    /\ UNCHANGED <<feeds, companies, jobs, nextRun, rwOther>>

\* ==================================================== the hourly sync
\* The third generation of the file: syncRecentJobsHourly and runSyncNow
\* call syncUserRecentJobs and keep their ledger in users/{uid}/syncRuns.
SYNC_FEED_CONCURRENCY == 15
RECENT_WINDOW_MS      == 65 * 60 * 1000
TTL_DAYS              == 3

\* listUserIdsToProcess: the ids of the users collection, in id order
listUserIdsToProcess == <<"u1", "u2">>

toTimestampOrNull(iso) == IF iso.kind = "iso" THEN iso.ms ELSE NoMs

addDaysTs(ts, days) == ts + days * 24 * 60 * 60 * 1000

\* makeJobDocId: the three parts joined, sanitized, with a checksum of the
\* joined text appended; distinct triples of the model give distinct ids
makeJobDocId(source, companyKey, externalId) == <<source, companyKey, externalId>>

\* the source texts of the model are whole words: includes() is equality
Includes(source, word) == source = word

fetchJobsFromFeed(source, json) ==
    IF Includes(source, "greenhouse")
      THEN (IF json.shape = "jobs" THEN json.jobs ELSE <<>>)
    ELSE IF Includes(source, "ashby")
      THEN (IF json.shape \in {"root", "jobs"} THEN json.jobs ELSE <<>>)
    ELSE (IF json.shape \in {"jobs", "root"} THEN json.jobs ELSE <<>>)

\* extractLocationTokens: the text, and its pieces between , ; | /
extractLocationTokens(loc) ==
    CASE loc = "" -> <<>>
      [] loc = "New York, NY" -> <<"New York, NY", "New York", "NY">>
      [] loc = "Berlin, Germany" -> <<"Berlin, Germany", "Berlin", "Germany">>
      [] OTHER -> <<loc>>

\* locationTokenMatches: a US-remote phrase, a US city or state name in the
\* text, or a two-letter word that is a state abbreviation
locationTokenMatches(token) ==
    LET t == CASE token = "New York, NY" ->
                    [remote |-> FALSE, city |-> TRUE, state |-> TRUE, abbr |-> TRUE]
               [] token = "New York" ->
                    [remote |-> FALSE, city |-> TRUE, state |-> TRUE, abbr |-> FALSE]
               [] token = "NY" ->
                    [remote |-> FALSE, city |-> FALSE, state |-> FALSE, abbr |-> TRUE]
               [] OTHER ->
                    [remote |-> FALSE, city |-> FALSE, state |-> FALSE, abbr |-> FALSE]
    IN  token # "" /\ (t.remote \/ t.city \/ t.state \/ t.abbr)

jobMatchesLocationFilter(job) ==
    \E x \in DOMAIN job.locationTokens : locationTokenMatches(job.locationTokens[x])

NoJob == [jobDocId |-> <<>>]

\* normalizeJobMinimal: a posting without a usable timestamp gets the time
\* of the run
normalizeJobMinimal(rawJob, source, companyKey, nowTs) ==
    IF Includes(source, "greenhouse")
      THEN LET sourceUpdatedIso == rawJob.updated_at
               ts == toTimestampOrNull(sourceUpdatedIso)
           IN  [jobDocId |-> makeJobDocId("greenhouse", companyKey, rawJob.id),
                source |-> "greenhouse", companyKey |-> companyKey,
                externalId |-> rawJob.id,
                locationTokens |-> extractLocationTokens(rawJob.loc),
                sourceUpdatedTs |-> IF ts # NoMs THEN ts ELSE nowTs,
                sourceUpdatedIso |-> sourceUpdatedIso]
    ELSE IF Includes(source, "ashby")
      THEN LET sourceUpdatedIso == rawJob.publishedAt
               ts == toTimestampOrNull(sourceUpdatedIso)
           IN  [jobDocId |-> makeJobDocId("ashbyhq", companyKey, rawJob.id),
                source |-> "ashbyhq", companyKey |-> companyKey,
                externalId |-> rawJob.id,
                locationTokens |-> extractLocationTokens(rawJob.loc),
                sourceUpdatedTs |-> IF ts # NoMs THEN ts ELSE nowTs,
                sourceUpdatedIso |-> sourceUpdatedIso]
    ELSE NoJob

\* the feeds query: where("archivedAt", "==", null)
SyncFeedObjs(col) ==
    LET ids == SelectSeq(FeedOrder,
                         LAMBDA f : f \in DOMAIN col /\ col[f].archivedAt = NoMs)
    IN  [i \in 1 .. Len(ids) |->
            [id |-> ids[i], url |-> col[ids[i]].url, source |-> col[ids[i]].source,
             company |-> col[ids[i]].company]]

SyncSource(feed) == IF feed.source = Null THEN "" ELSE feed.source

\* one feed's task from its start to its first await (the fetch): the url
\* check, feedsProcessed, and the company write handed to the bulk writer
SyncStartTask(sr, i) ==
    LET feed == sr.feeds[i] IN
    IF feed.url = NoUrl
      THEN [sr EXCEPT !.failedFeeds = @ + 1, !.ft[i].st = "errSet"]
      ELSE [sr EXCEPT
              !.feedsProcessed = @ + 1,
              !.bw = Append(@, [col |-> "companies", id |-> feed.id,
                                data |-> [companyName |-> feed.company,
                                          source |-> SyncSource(feed),
                                          isActive |-> TRUE,
                                          lastSeenAt |-> sr.now,
                                          lastJobSyncAt |-> sr.now]]),
              !.ft[i].st = "fetch"]

RECURSIVE SyncStartFirst(_, _)
SyncStartFirst(sr, k) ==
    IF k = 0 THEN sr ELSE SyncStartTask(SyncStartFirst(sr, k - 1), k)

\* a task ended: pLimit starts the next one that waits
SyncTaskDone(sr, i) ==
    LET sr1     == [sr EXCEPT !.ft[i].st = "done"]
        waiting == {j \in DOMAIN sr1.ft : sr1.ft[j].st = "pending"}
    IN  IF waiting = {} THEN sr1
        ELSE SyncStartTask(sr1, CHOOSE x \in waiting : \A y \in waiting : x <= y)

RunningDoc(u, entry, runType, startedAt, cutoff) ==
    [ok |-> TRUE, userId |-> u, source |-> entry, runType |-> runType,
     status |-> "RUNNING", startedAt |-> startedAt, ranAt |-> startedAt,
     recentCutoff |-> cutoff]

\* an invocation that has written RUNNING for user u and calls
\* syncUserRecentJobs({userId, now, recentCutoff})
SyncBegun(started, todo, u, startedAt, nowTs, cutoff) ==
    [pc |-> "load", started |-> started, todo |-> todo, uid |-> u,
     runId |-> startedAt, startedAt |-> startedAt, now |-> nowTs,
     cutoff |-> cutoff, feeds |-> <<>>, ft |-> <<>>, bw |-> <<>>,
     feedsCount |-> 0, feedsProcessed |-> 0, failedFeeds |-> 0,
     jobsFetched |-> 0, jobsKeptRecent |-> 0, jobsWritten |-> 0]

v1Vars == <<fetchRuns, nextRun, projectId, sched, enq, tasks, w, rw,
           rpcErrors, httpRes>>

\* v1Vars without httpRes, for the steps of runSyncNow that answer
syncKeeps == <<feeds, companies, jobs, fetchRuns, nextRun, projectId, sched,
              enq, tasks, w, rw, rpcErrors, now>>

\* the wall clock advances
Tick ==
    /\ now < T0 + MaxTicks
    /\ now' = now + 1
    /\ UNCHANGED <<feeds, companies, jobs, v1Vars, syncVars>>

\* syncRecentJobsHourly up to its loop: now, recentCutoff, the user ids
syncRecentJobsHourly ==
    /\ sync["hourly"].pc = "idle"
    /\ sync' = [sync EXCEPT !["hourly"] =
                  [pc |-> "next", started |-> @.started + 1, now |-> now,
                   cutoff |-> now - RECENT_WINDOW_MS,
                   todo |-> listUserIdsToProcess]]
    /\ UNCHANGED <<feeds, companies, jobs, v1Vars, now, syncRuns>>

\* the loop's next user: the run id is the clock reading, RUNNING is written
HourlyBeginUser ==
    LET sr == sync["hourly"] IN
    /\ sr.pc = "next"
    /\ sr.todo # <<>>
    /\ syncRuns' = [syncRuns EXCEPT ![Head(sr.todo)] =
                      SetMerge(@, now, RunningDoc(Head(sr.todo),
                          "syncRecentJobsHourly", "scheduled", now, sr.cutoff))]
    /\ sync' = [sync EXCEPT !["hourly"] =
                  SyncBegun(sr.started, Tail(sr.todo), Head(sr.todo), now,
                            sr.now, sr.cutoff)]
    /\ UNCHANGED <<feeds, companies, jobs, v1Vars, now>>

\* the RUNNING write fails: it is outside the try, the function ends
HourlyBeginUserFails ==
    /\ sync["hourly"].pc = "next"
    /\ sync["hourly"].todo # <<>>
    /\ sync' = [sync EXCEPT !["hourly"] = SyncIdle(@.started)]
    /\ UNCHANGED <<feeds, companies, jobs, v1Vars, now, syncRuns>>

\* runSyncNow without a userId query parameter: 400 before anything is
\* read or written
runSyncNowNoUser ==
    /\ Cardinality({k \in DOMAIN httpRes : httpRes[k].status = 400}) < MaxBadRequests
    /\ httpRes' = Append(httpRes, [status |-> 400, uid |-> "", runId |-> NoMs])
    /\ UNCHANGED <<syncKeeps, syncVars>>

\* runSyncNow?userId=u up to the call of syncUserRecentJobs
runSyncNow(u) ==
    /\ sync["manual"].pc = "idle"
    /\ syncRuns' = [syncRuns EXCEPT ![u] =
                      SetMerge(@, now, RunningDoc(u, "runSyncNow", "manual", now,
                                                  now - RECENT_WINDOW_MS))]
    /\ sync' = [sync EXCEPT !["manual"] =
                  SyncBegun(@.started + 1, <<>>, u, now, now,
                            now - RECENT_WINDOW_MS)]
    /\ UNCHANGED <<feeds, companies, jobs, v1Vars, now>>

\* ------------------------------------------------- syncUserRecentJobs
syncOther == <<feeds, companies, jobs, v1Vars, now, syncRuns>>

\* the feeds query answered; with no feed the summary is returned at once,
\* otherwise every task that gets a slot runs up to its fetch
SyncLoadFeedsOk(s) ==
    /\ sync[s].pc = "load"
    /\ LET fs  == SyncFeedObjs(feeds[sync[s].uid])
           sr1 == [sync[s] EXCEPT
                     !.feeds = fs, !.feedsCount = Len(fs),
                     !.ft = [i \in 1 .. Len(fs) |->
                               [st |-> "pending", recentOnly |-> <<>>]]]
           n   == IF Len(fs) < SYNC_FEED_CONCURRENCY
                    THEN Len(fs) ELSE SYNC_FEED_CONCURRENCY
       IN  sync' = [sync EXCEPT ![s] =
                      IF fs = <<>> THEN [sr1 EXCEPT !.pc = "final"]
                      ELSE [SyncStartFirst(sr1, n) EXCEPT !.pc = "tasks"]]
    /\ UNCHANGED syncOther

\* the feeds query fails: syncUserRecentJobs throws
SyncLoadFeedsFails(s) ==
    /\ sync[s].pc = "load"
    /\ sync' = [sync EXCEPT ![s].pc = "catch"]
    /\ UNCHANGED syncOther

JobWrite(job, nowTs) ==
    [col |-> "jobs", id |-> job.jobDocId,
     data |-> Merge(job, [fetchedAt |-> nowTs,
                          expireAt |-> addDaysTs(job.sourceUpdatedTs, TTL_DAYS)])]

\* the fetch answered: normalize, filter by location, then by recency; every
\* posting left is handed to the bulk writer; then the feed document is set
SyncFetchOk(s, i, json) ==
    /\ sync[s].pc = "tasks"
    /\ i \in DOMAIN sync[s].ft
    /\ sync[s].ft[i].st = "fetch"
    /\ LET sr      == sync[s]
           feed    == sr.feeds[i]
           source  == SyncSource(feed)
           rawJobs == fetchJobsFromFeed(source, json)
           normalized ==
               SelectSeq([x \in 1 .. Len(rawJobs) |->
                             normalizeJobMinimal(rawJobs[x], source, feed.id, sr.now)],
                         LAMBDA j : j # NoJob)
           locationFiltered == SelectSeq(normalized, jobMatchesLocationFilter)
           recentOnly ==
               SelectSeq(locationFiltered,
                         LAMBDA j : j.sourceUpdatedTs >= sr.cutoff)
           writes == [x \in 1 .. Len(recentOnly) |-> JobWrite(recentOnly[x], sr.now)]
       IN  sync' = [sync EXCEPT ![s] =
                      [sr EXCEPT !.jobsFetched = @ + Len(rawJobs),
                                 !.jobsKeptRecent = @ + Len(recentOnly),
                                 !.jobsWritten = @ + Len(recentOnly),
                                 !.bw = @ \o writes,
                                 !.ft[i] = [st |-> "feedSet",
                                            recentOnly |-> recentOnly]]]
    /\ UNCHANGED syncOther

\* the fetch failed: the task's catch block
SyncFetchFails(s, i) ==
    /\ sync[s].pc = "tasks"
    /\ i \in DOMAIN sync[s].ft
    /\ sync[s].ft[i].st = "fetch"
    /\ sync' = [sync EXCEPT ![s].failedFeeds = @ + 1, ![s].ft[i].st = "errSet"]
    /\ UNCHANGED syncOther

\* feedRef.set({lastCheckedAt, lastError: null, lastJobCount})
SyncFeedSetOk(s, i) ==
    /\ sync[s].pc = "tasks"
    /\ i \in DOMAIN sync[s].ft
    /\ sync[s].ft[i].st = "feedSet"
    /\ feeds' = [feeds EXCEPT ![sync[s].uid] =
                    SetMerge(@, sync[s].feeds[i].id,
                             [lastCheckedAt |-> sync[s].now, lastError |-> Null,
                              lastJobCount |-> Len(sync[s].ft[i].recentOnly)])]
    /\ sync' = [sync EXCEPT ![s] = SyncTaskDone(@, i)]
    /\ UNCHANGED <<companies, jobs, v1Vars, now, syncRuns>>

\* that write fails: the task's catch block
SyncFeedSetFails(s, i) ==
    /\ sync[s].pc = "tasks"
    /\ i \in DOMAIN sync[s].ft
    /\ sync[s].ft[i].st = "feedSet"
    /\ sync' = [sync EXCEPT ![s].failedFeeds = @ + 1, ![s].ft[i].st = "errSet"]
    /\ UNCHANGED syncOther

\* the catch block's feedRef.set({lastCheckedAt, lastError: msg})
SyncErrSetOk(s, i) ==
    /\ sync[s].pc = "tasks"
    /\ i \in DOMAIN sync[s].ft
    /\ sync[s].ft[i].st = "errSet"
    /\ feeds' = [feeds EXCEPT ![sync[s].uid] =
                    SetMerge(@, sync[s].feeds[i].id,
                             [lastCheckedAt |-> sync[s].now, lastError |-> "error"])]
    /\ sync' = [sync EXCEPT ![s] = SyncTaskDone(@, i)]
    /\ UNCHANGED <<companies, jobs, v1Vars, now, syncRuns>>

SyncTasksDone(sr) == \A i \in DOMAIN sr.ft : sr.ft[i].st = "done"

\* The bulk writer sends a batch when the batch is full (20 operations) or
\* when the writer is flushed; no feed of the model fills a batch, so the
\* operations are sent by close(), oldest first.
BwFlushing(s) ==
    /\ sync[s].pc = "tasks"
    /\ SyncTasksDone(sync[s])
    /\ sync[s].bw # <<>>

\* one operation is committed: set(..., {merge: true})
BwCommit(s) ==
    /\ BwFlushing(s)
    /\ LET op == Head(sync[s].bw) IN
       IF op.col = "jobs"
         THEN /\ jobs' = [jobs EXCEPT ![sync[s].uid] = SetMerge(@, op.id, op.data)]
              /\ companies' = companies
         ELSE /\ companies' = [companies EXCEPT
                                  ![sync[s].uid] = SetMerge(@, op.id, op.data)]
              /\ jobs' = jobs
    /\ sync' = [sync EXCEPT ![s].bw = Tail(@)]
    /\ UNCHANGED <<feeds, v1Vars, now, syncRuns>>

\* await Promise.all(tasks); await bw.close(): the summary is returned
SyncCloseOk(s) ==
    /\ sync[s].pc = "tasks"
    /\ SyncTasksDone(sync[s])
    /\ sync[s].bw = <<>>
    /\ sync' = [sync EXCEPT ![s].pc = "final"]
    /\ UNCHANGED syncOther

\* control goes back to the entry point: the hourly loop goes on, the
\* manual call answers
SyncReturn(sr) ==
    IF sr.todo # <<>>
      THEN [pc |-> "next", started |-> sr.started, now |-> sr.now,
            cutoff |-> sr.cutoff, todo |-> sr.todo]
      ELSE SyncIdle(sr.started)

DoneDoc(sr) ==
    [status |-> "DONE", ok |-> TRUE, scanned |-> sr.jobsFetched,
     updated |-> sr.jobsWritten, jobsWritten |-> sr.jobsWritten,
     feedsCount |-> sr.feedsCount, feedsProcessed |-> sr.feedsProcessed,
     failedFeeds |-> sr.failedFeeds, jobsFetched |-> sr.jobsFetched,
     jobsKeptRecent |-> sr.jobsKeptRecent]

\* what the entry point answers once its last write is through: runSyncNow
\* sends res.json(response) or res.status(500).json({error}), the scheduled
\* function has nobody to answer
Responded(s, status) ==
    IF s = "manual"
      THEN Append(httpRes, [status |-> status, uid |-> sync[s].uid,
                            runId |-> sync[s].runId])
      ELSE httpRes

\* an entry point that answers 200 and leaves the run document as it is
SyncFinalAnswersOnly(s) ==
    /\ sync[s].pc = "final"
    /\ httpRes' = Responded(s, 200)
    /\ sync' = [sync EXCEPT ![s] = SyncReturn(@)]
    /\ UNCHANGED <<syncKeeps, syncRuns>>

\* the entry point's runRef.set({status: "DONE", ...summary}), then the
\* answer
SyncFinalOk(s) ==
    /\ sync[s].pc = "final"
    /\ syncRuns' = [syncRuns EXCEPT ![sync[s].uid] =
                      SetMerge(@, sync[s].runId, DoneDoc(sync[s]))]
    /\ httpRes' = Responded(s, 200)
    /\ sync' = [sync EXCEPT ![s] = SyncReturn(@)]
    /\ UNCHANGED syncKeeps

SyncFinalFails(s) ==
    /\ sync[s].pc = "final"
    /\ sync' = [sync EXCEPT ![s].pc = "catch"]
    /\ UNCHANGED syncOther

\* the entry point's catch: runRef.set({status: "FAILED", ...})
SyncCatchOk(s) ==
    /\ sync[s].pc = "catch"
    /\ syncRuns' = [syncRuns EXCEPT ![sync[s].uid] =
                      SetMerge(@, sync[s].runId,
                               [ok |-> FALSE, status |-> "FAILED",
                                error |-> "error", feedsCount |-> 0])]
    /\ httpRes' = Responded(s, 500)
    /\ sync' = [sync EXCEPT ![s] = SyncReturn(@)]
    /\ UNCHANGED syncKeeps

\* that write fails too: the error leaves the entry point
SyncCatchFails(s) ==
    /\ sync[s].pc = "catch"
    /\ sync' = [sync EXCEPT ![s] = SyncIdle(@.started)]
    /\ UNCHANGED syncOther

\* --------------------------------------------------- what the feeds send
Fresh    == IsoOf(T0 - 1000)                    \* a second ago
Earlier  == IsoOf(T0 - UPDATE_WINDOW_MS + 1000) \* inside the window, older
AtCutoff == IsoOf(T0 - UPDATE_WINDOW_MS)        \* exactly at the cutoff
TooOld   == IsoOf(T0 - UPDATE_WINDOW_MS - 1)    \* one millisecond too old

\* payloads of the ledger specification: one posting, or none
LedgerPayloads ==
    { Json("jobs", <<>>),
      Json("jobs", <<GhRaw(1, Fresh, IsoAbsent, "New York, NY")>>) }

\* payloads of the job-store specification: the same posting with a later
\* and with an earlier timestamp, and a posting at the cutoff next to one
\* that is a millisecond older
JobPayloads ==
    { Json("jobs", <<GhRaw(1, Fresh, IsoAbsent, "New York, NY")>>),
      Json("jobs", <<GhRaw(1, Earlier, IsoAbsent, "New York, NY")>>),
      Json("jobs", <<GhRaw(2, AtCutoff, IsoAbsent, "New York, NY"),
                     GhRaw(3, IsoAbsent, TooOld, "New York, NY")>>) }

FeedSlots == 1 .. Cardinality(FeedIds)
JobSlots  == 1 .. MaxPostings

\* payloads of the effective-time specification: postings of a Greenhouse
\* board whose two timestamps differ, in both orders, and a posting that has
\* only one of them
EffPayloads ==
    { Json("jobs", <<>>),
      Json("jobs", <<GhRaw(1, Fresh, Earlier, "New York, NY")>>),
      Json("jobs", <<GhRaw(1, Earlier, Fresh, "New York, NY"),
                     GhRaw(2, IsoAbsent, Fresh, "New York, NY")>>),
      Json("jobs", <<GhRaw(1, TooOld, Fresh, "New York, NY")>>) }

\* ------------------------------------------------------ specifications
\* Spec: the life of a run document.  Runs are started by hand; every call
\* of the store and of the queue may fail, an invocation may be cut off, and
\* a task may be delivered again.
Next ==
    \/ \E u \in Users : nextRun <= LedgerRuns /\ pollNowV2(u)
    \/ \E f \in FeedIds : archiveFeed("u1", f)
    \/ \E r \in RunIds : EnqUriThrows(r)
    \/ \E r \in RunIds : EnqueueOk(r)
    \/ \E r \in RunIds : EnqueueFails(r)
    \/ \E r \in RunIds : EnqFailedWrite(r)
    \/ \E r \in RunIds : EnqFailedWriteFails(r)
    \/ \E r \in RunIds : Deliver(r)
    \/ \E r \in RunIds : TaskReturn(r)
    \/ \E r \in RunIds : TaskDuplicate(r)
    \/ \E r \in RunIds : TaskThrow(r)
    \/ \E r \in RunIds : Timeout(r)
    \/ \E r \in RunIds : LoadFeedsOk(r)
    \/ \E r \in RunIds : LoadFeedsFails(r)
    \/ \E r \in RunIds : SetRunningOk(r)
    \/ \E r \in RunIds : SetRunningFails(r)
    \/ \E r \in RunIds, i \in FeedSlots, json \in LedgerPayloads : FetchOk(r, i, json)
    \/ \E r \in RunIds, i \in FeedSlots : FetchFails(r, i)
    \/ \E r \in RunIds, i \in FeedSlots, k \in JobSlots : JobCreate(r, i, k)
    \/ \E r \in RunIds, i \in FeedSlots, k \in JobSlots : JobSet(r, i, k)
    \/ \E r \in RunIds, i \in FeedSlots, k \in JobSlots : JobWriteFails(r, i, k)
    \/ \E r \in RunIds, i \in FeedSlots : CompanyOk(r, i)
    \/ \E r \in RunIds, i \in FeedSlots : CompanyFails(r, i)
    \/ \E r \in RunIds : CloseOk(r)
    \/ \E r \in RunIds : FinalWriteOk(r)
    \/ \E r \in RunIds : FinalWriteFails(r)
    \/ \E r \in RunIds : CatchWriteOk(r)
    \/ \E r \in RunIds : CatchWriteFails(r)
    \/ \E r \in RunIds : HandlerCatchWriteOk(r)
    \/ \E r \in RunIds : HandlerCatchWriteFails(r)

Spec == Init /\ [][Next]_vars

\* SpecEff: one run of the read-then-write generation over postings whose
\* updated_at and first_published differ.
NextEff ==
    \/ \E u \in Users : nextRun <= LedgerRuns /\ pollNowRw(u)
    \/ \E r \in RunIds : RwLoadFeeds(r)
    \/ \E r \in RunIds : RwSetRunning(r)
    \/ \E r \in RunIds, i \in FeedSlots, json \in EffPayloads : RwFetchOk(r, i, json)
    \/ \E r \in RunIds, i \in FeedSlots : RwFetchFails(r, i)
    \/ \E r \in RunIds, i \in FeedSlots, k \in JobSlots : RwGet(r, i, k)
    \/ \E r \in RunIds, i \in FeedSlots, k \in JobSlots : RwSet(r, i, k)
    \/ \E r \in RunIds, i \in FeedSlots : RwCompany(r, i)
    \/ \E r \in RunIds : RwFinal(r)

SpecEff == Init /\ [][NextEff]_vars

\* SpecRetry: runs of one tenant whose job writes fail, attempt by attempt,
\* with errors of every class.
NextRetry ==
    \/ pollNowV2("u1")
    \/ \E r \in RunIds : EnqueueOk(r)
    \/ \E r \in RunIds : Deliver(r)
    \/ \E r \in RunIds : TaskReturn(r)
    \/ \E r \in RunIds : LoadFeedsOk(r)
    \/ \E r \in RunIds : SetRunningOk(r)
    \/ \E r \in RunIds, i \in FeedSlots, json \in LedgerPayloads : FetchOk(r, i, json)
    \/ \E r \in RunIds, i \in FeedSlots, k \in JobSlots : JobCreate(r, i, k)
    \/ \E r \in RunIds, i \in FeedSlots, k \in JobSlots : JobSet(r, i, k)
    \/ \E r \in RunIds, i \in FeedSlots, k \in JobSlots, code \in WriteErrorCodes :
          JobWriteError(r, i, k, code)
    \/ \E r \in RunIds, i \in FeedSlots : CompanyOk(r, i)
    \/ \E r \in RunIds : CloseOk(r)
    \/ \E r \in RunIds : FinalWriteOk(r)

SpecRetry == Init /\ [][NextRetry]_vars

\* SpecOther: runs of tenant u2, whose user adds a feed whose URL is neither
\* a Greenhouse nor an Ashby endpoint.
NextOther ==
    \/ addFeedAnyUrl("u2", "f2", Url("other", "jobs", ""))
    \/ pollNowV2("u2")
    \/ \E r \in RunIds : EnqueueOk(r)
    \/ \E r \in RunIds : Deliver(r)
    \/ \E r \in RunIds : TaskReturn(r)
    \/ \E r \in RunIds : LoadFeedsOk(r)
    \/ \E r \in RunIds : SetRunningOk(r)
    \/ \E r \in RunIds, i \in FeedSlots, json \in LedgerPayloads : FetchOk(r, i, json)
    \/ \E r \in RunIds, i \in FeedSlots : FetchFails(r, i)
    \/ \E r \in RunIds, i \in FeedSlots, k \in JobSlots : JobCreate(r, i, k)
    \/ \E r \in RunIds, i \in FeedSlots, k \in JobSlots : JobSet(r, i, k)
    \/ \E r \in RunIds, i \in FeedSlots : CompanyOk(r, i)
    \/ \E r \in RunIds : CloseOk(r)
    \/ \E r \in RunIds : FinalWriteOk(r)

SpecOther == Init /\ [][NextOther]_vars

\* SpecJobs: the job store under runs that interleave.  Runs are started by
\* hand and by the scheduler; no call fails.
NextJobs ==
    \/ \E u \in Users : pollNowV2(u)
    \/ SchedulerTick
    \/ \E u \in Users : SchedulerEnqueue(u)
    \/ \E r \in RunIds : EnqUriThrows(r)
    \/ \E r \in RunIds : EnqueueOk(r)
    \/ \E r \in RunIds : Deliver(r)
    \/ \E r \in RunIds : TaskReturn(r)
    \/ \E r \in RunIds : LoadFeedsOk(r)
    \/ \E r \in RunIds : SetRunningOk(r)
    \/ \E r \in RunIds, i \in FeedSlots, json \in JobPayloads : FetchOk(r, i, json)
    \/ \E r \in RunIds, i \in FeedSlots, k \in JobSlots : JobCreate(r, i, k)
    \/ \E r \in RunIds, i \in FeedSlots, k \in JobSlots : JobSet(r, i, k)
    \/ \E r \in RunIds, i \in FeedSlots : CompanyOk(r, i)
    \/ \E r \in RunIds : CloseOk(r)
    \/ \E r \in RunIds : FinalWriteOk(r)

SpecJobs == Init /\ [][NextJobs]_vars

\* payloads of the job-store specification with a user: one posting, and the
\* same posting listed twice
StorePayloads ==
    { Json("jobs", <<GhRaw(1, Fresh, IsoAbsent, "New York, NY")>>),
      Json("jobs", <<GhRaw(1, Fresh, IsoAbsent, "New York, NY"),
                     GhRaw(1, Fresh, IsoAbsent, "New York, NY")>>) }

\* SpecStore: the job store of one tenant with its user.  Runs are started
\* by hand and interleave, the clock advances, and the user bookmarks jobs
\* on the Jobs page; no call fails.
NextStore ==
    \/ Tick
    \/ \E u \in Users : \E id \in DOMAIN jobs[u] :
          ~jobs[u][id].saved /\ toggleBookmark(u, id, TRUE)
    \/ pollNowV2("u2")
    \/ \E r \in RunIds : EnqueueOk(r)
    \/ \E r \in RunIds : Deliver(r)
    \/ \E r \in RunIds : TaskReturn(r)
    \/ \E r \in RunIds : LoadFeedsOk(r)
    \/ \E r \in RunIds : SetRunningOk(r)
    \/ \E r \in RunIds, i \in FeedSlots, json \in StorePayloads : FetchOk(r, i, json)
    \/ \E r \in RunIds, i \in FeedSlots, k \in JobSlots : JobCreate(r, i, k)
    \/ \E r \in RunIds, i \in FeedSlots, k \in JobSlots : JobSet(r, i, k)
    \/ \E r \in RunIds, i \in FeedSlots : CompanyOk(r, i)
    \/ \E r \in RunIds : CloseOk(r)
    \/ \E r \in RunIds : FinalWriteOk(r)

SpecStore == Init /\ [][NextStore]_vars

\* payloads of the close specification: two postings
ClosePayloads ==
    { Json("jobs", <<GhRaw(1, Fresh, IsoAbsent, "New York, NY"),
                     GhRaw(2, Fresh, IsoAbsent, "New York, NY")>>) }

\* SpecClose: one run of a tenant with one feed, where every call of the
\* store may fail and the task is tried again after a failure.
NextClose ==
    \/ nextRun <= LedgerRuns /\ pollNowV2("u2")
    \/ \E r \in RunIds : EnqueueOk(r)
    \/ \E r \in RunIds : Deliver(r)
    \/ \E r \in RunIds : TaskReturn(r)
    \/ \E r \in RunIds : TaskThrow(r)
    \/ \E r \in RunIds : LoadFeedsOk(r)
    \/ \E r \in RunIds : LoadFeedsFails(r)
    \/ \E r \in RunIds : SetRunningOk(r)
    \/ \E r \in RunIds : SetRunningFails(r)
    \/ \E r \in RunIds, i \in FeedSlots, json \in ClosePayloads : FetchOk(r, i, json)
    \/ \E r \in RunIds, i \in FeedSlots : FetchFails(r, i)
    \/ \E r \in RunIds, i \in FeedSlots, k \in JobSlots : JobCreate(r, i, k)
    \/ \E r \in RunIds, i \in FeedSlots, k \in JobSlots : JobSet(r, i, k)
    \/ \E r \in RunIds, i \in FeedSlots, k \in JobSlots : JobWriteFails(r, i, k)
    \/ \E r \in RunIds, i \in FeedSlots : CompanyOk(r, i)
    \/ \E r \in RunIds, i \in FeedSlots : CompanyFails(r, i)
    \/ \E r \in RunIds : CloseOk(r)
    \/ \E r \in RunIds : FinalWriteOk(r)
    \/ \E r \in RunIds : FinalWriteFails(r)
    \/ \E r \in RunIds : CatchWriteOk(r)
    \/ \E r \in RunIds : CatchWriteFails(r)
    \/ \E r \in RunIds : HandlerCatchWriteOk(r)
    \/ \E r \in RunIds : HandlerCatchWriteFails(r)

SpecClose == Init /\ [][NextClose]_vars

\* the feed documents the user can add, and the slots of a run's feed tasks
\* when all of them exist
MoreFeedIds == {FeedOrder[i] : i \in 1 .. MaxFeeds} \ FeedIds
LimitSlots  == 1 .. MaxFeeds

\* SpecLimit: one run of a tenant to whose feeds the user adds more; the
\* fetch of a feed may fail.
NextLimit ==
    \/ \E f \in MoreFeedIds : addFeed("u1", f, Url("greenhouse", f, ""))
    \/ nextRun <= LedgerRuns /\ pollNowV2("u1")
    \/ \E r \in RunIds : EnqueueOk(r)
    \/ \E r \in RunIds : Deliver(r)
    \/ \E r \in RunIds : TaskReturn(r)
    \/ \E r \in RunIds : LoadFeedsOk(r)
    \/ \E r \in RunIds : SetRunningOk(r)
    \/ \E r \in RunIds, i \in LimitSlots, json \in LedgerPayloads : FetchOk(r, i, json)
    \/ \E r \in RunIds, i \in LimitSlots : FetchFails(r, i)
    \/ \E r \in RunIds, i \in LimitSlots, k \in JobSlots : JobCreate(r, i, k)
    \/ \E r \in RunIds, i \in LimitSlots : CompanyOk(r, i)
    \/ \E r \in RunIds : CloseOk(r)
    \/ \E r \in RunIds : FinalWriteOk(r)

SpecLimit == Init /\ [][NextLimit]_vars

\* a payload with more than half of JOB_WRITE_CONCURRENCY postings that
\* every source keeps
ManyPostings == JOB_WRITE_CONCURRENCY \div 2 + 1
ManySlots    == 1 .. ManyPostings
BigPayload ==
    Json("jobs", [k \in ManySlots |->
                    Raw(k, Fresh, IsoAbsent, Fresh, "New York, NY", FALSE)])

\* SpecWrites: one run of a tenant with two feeds that send many postings;
\* the writes of a feed are committed in the order they were handed over.
NextWrites ==
    \/ nextRun <= LedgerRuns /\ pollNowV2("u1")
    \/ \E r \in RunIds : EnqueueOk(r)
    \/ \E r \in RunIds : Deliver(r)
    \/ \E r \in RunIds : TaskReturn(r)
    \/ \E r \in RunIds : LoadFeedsOk(r)
    \/ \E r \in RunIds : SetRunningOk(r)
    \/ \E r \in RunIds, i \in FeedSlots : FetchOk(r, i, BigPayload)
    \/ \E r \in RunIds, i \in FeedSlots, k \in ManySlots :
          /\ WriteEnabled(r, i, k, "create")
          /\ \A k2 \in 1 .. (k - 1) : w[r].ft[i].ws[k2].st = "done"
          /\ JobCreate(r, i, k)
    \/ \E r \in RunIds, i \in FeedSlots : CompanyOk(r, i)
    \/ \E r \in RunIds : CloseOk(r)
    \/ \E r \in RunIds : FinalWriteOk(r)

SpecWrites == Init /\ [][NextWrites]_vars

\* the answers a request can meet, and the answers one call can meet
Responses ==
    { OkResp(Json("jobs", <<GhRaw(1, Fresh, IsoAbsent, "New York, NY")>>)),
      HttpResp(404, FALSE), HttpResp(404, TRUE), HttpResp(503, FALSE),
      BadJsonResp(FALSE), AbortResp, NetErrResp(TRUE), NetErrResp(FALSE) }

ResponseSeqs == [1 .. MaxResponses -> Responses]

\* SpecFetch: one run of a tenant with one feed, whose server answers in
\* every way; no call of the store fails.
NextFetch ==
    \/ nextRun <= LedgerRuns /\ pollNowV2("u2")
    \/ \E r \in RunIds : EnqueueOk(r)
    \/ \E r \in RunIds : Deliver(r)
    \/ \E r \in RunIds : TaskReturn(r)
    \/ \E r \in RunIds : LoadFeedsOk(r)
    \/ \E r \in RunIds : SetRunningOk(r)
    \/ \E r \in RunIds, i \in FeedSlots, resps \in ResponseSeqs : FetchJson(r, i, resps)
    \/ \E r \in RunIds, i \in FeedSlots, k \in JobSlots : JobCreate(r, i, k)
    \/ \E r \in RunIds, i \in FeedSlots : CompanyOk(r, i)
    \/ \E r \in RunIds : CloseOk(r)
    \/ \E r \in RunIds : FinalWriteOk(r)

SpecFetch == Init /\ [][NextFetch]_vars

\* SpecRw: runs of the read-then-write generation that interleave; the fetch
\* of a feed may fail, no call of the store does.
NextRw ==
    \/ \E u \in Users : pollNowRw(u)
    \/ \E r \in RunIds : RwLoadFeeds(r)
    \/ \E r \in RunIds : RwSetRunning(r)
    \/ \E r \in RunIds, i \in FeedSlots, json \in LedgerPayloads : RwFetchOk(r, i, json)
    \/ \E r \in RunIds, i \in FeedSlots : RwFetchFails(r, i)
    \/ \E r \in RunIds, i \in FeedSlots, k \in JobSlots : RwGet(r, i, k)
    \/ \E r \in RunIds, i \in FeedSlots, k \in JobSlots : RwSet(r, i, k)
    \/ \E r \in RunIds, i \in FeedSlots : RwCompany(r, i)
    \/ \E r \in RunIds : RwFinal(r)

SpecRw == Init /\ [][NextRw]_vars

\* a tenant with one feed more than the ledger keeps error samples
ManyFeeds   == MAX_ERROR_SAMPLES + 1
SampleSlots == 1 .. ManyFeeds

\* SpecSamples: the user adds feeds one after the other until the tenant has
\* ManyFeeds of them; then one run, in which the fetch of every feed fails
\* or brings an empty payload.
NextSamples ==
    \/ \E i \in SampleSlots :
          /\ \A j \in 1 .. (i - 1) : FeedOrder[j] \in DOMAIN feeds["u1"]
          /\ addFeed("u1", FeedOrder[i], Url("greenhouse", FeedOrder[i], ""))
    \/ /\ nextRun <= LedgerRuns
       /\ Cardinality(DOMAIN feeds["u1"]) = ManyFeeds
       /\ pollNowV2("u1")
    \/ \E r \in RunIds : EnqueueOk(r)
    \/ \E r \in RunIds : Deliver(r)
    \/ \E r \in RunIds : TaskReturn(r)
    \/ \E r \in RunIds : LoadFeedsOk(r)
    \/ \E r \in RunIds : SetRunningOk(r)
    \/ \E r \in RunIds, i \in SampleSlots : FetchFails(r, i)
    \/ \E r \in RunIds : FetchOk(r, ManyFeeds, Json("jobs", <<>>))
    \/ \E r \in RunIds : CloseOk(r)
    \/ \E r \in RunIds : FinalWriteOk(r)

SpecSamples == Init /\ [][NextSamples]_vars

\* payloads of the location specification: fresh postings that differ in
\* their location text and their isRemote flag
LocPosting(id, loc, isRemote) == Raw(id, Fresh, IsoAbsent, Fresh, loc, isRemote)

LocPayloads ==
    { Json("jobs", <<LocPosting(1, "Remote - Germany", FALSE),
                     LocPosting(2, "Remote - Germany", TRUE)>>),
      Json("jobs", <<LocPosting(3, "", FALSE),
                     LocPosting(4, "Berlin, Germany", FALSE)>>),
      Json("jobs", <<LocPosting(5, "Remote", FALSE),
                     LocPosting(6, "New York, NY", FALSE)>>) }

\* SpecLoc: one run of a tenant with a Greenhouse and an Ashby feed whose
\* postings come from everywhere; no call fails.
NextLoc ==
    \/ nextRun <= LedgerRuns /\ pollNowV2("u1")
    \/ \E r \in RunIds : EnqueueOk(r)
    \/ \E r \in RunIds : Deliver(r)
    \/ \E r \in RunIds : TaskReturn(r)
    \/ \E r \in RunIds : LoadFeedsOk(r)
    \/ \E r \in RunIds : SetRunningOk(r)
    \/ \E r \in RunIds, i \in FeedSlots, json \in LocPayloads : FetchOk(r, i, json)
    \/ \E r \in RunIds, i \in FeedSlots, k \in JobSlots : JobCreate(r, i, k)
    \/ \E r \in RunIds, i \in FeedSlots : CompanyOk(r, i)
    \/ \E r \in RunIds : CloseOk(r)
    \/ \E r \in RunIds : FinalWriteOk(r)

SpecLoc == Init /\ [][NextLoc]_vars

\* SpecTick: the dispatcher.  Runs are started by the scheduler and by hand,
\* by callers with and without a session; the run-document write and the
\* queue may fail, and messages are delivered to a worker whose calls succeed.
NextTick ==
    \/ pollNowUnauthenticated
    \/ \E u \in Users : pollNowCreateFails(u)
    \/ \E u \in Users : pollNowV2(u)
    \/ SchedulerTick
    \/ \E u \in Users : SchedulerEnqueue(u)
    \/ \E u \in Users : SchedulerCreateFails(u)
    \/ \E r \in RunIds : EnqUriThrows(r)
    \/ \E r \in RunIds : EnqueueOk(r)
    \/ \E r \in RunIds : EnqueueFails(r)
    \/ \E r \in RunIds : EnqFailedWrite(r)
    \/ \E r \in RunIds : EnqFailedWriteFails(r)
    \/ \E r \in RunIds : Deliver(r)
    \/ \E r \in RunIds : LoadFeedsOk(r)

SpecTick == Init /\ [][NextTick]_vars

\* payloads of the hourly sync: a posting with a timestamp next to one that
\* is too old, and a posting without a timestamp next to one whose
\* timestamp does not parse
SyncPayloads ==
    { Json("jobs", <<GhRaw(1, Fresh, IsoAbsent, "New York, NY"),
                     GhRaw(4, IsoOf(T0 - RECENT_WINDOW_MS - 1), IsoAbsent,
                           "New York, NY")>>),
      Json("jobs", <<GhRaw(2, IsoAbsent, IsoAbsent, "New York, NY"),
                     GhRaw(3, IsoGarbage, IsoAbsent, "New York, NY")>>) }

\* invocations of the hourly sync begun so far
SyncStarted == sync["hourly"].started + sync["manual"].started

\* SpecSync: the hourly sync back end, with the UI archiving feeds.
NextSync ==
    \/ Tick
    \/ \E f \in FeedIds : archiveFeed("u2", f)
    \/ SyncStarted < MaxSyncs /\ syncRecentJobsHourly
    \/ HourlyBeginUser
    \/ HourlyBeginUserFails
    \/ \E u \in Users : SyncStarted < MaxSyncs /\ runSyncNow(u)
    \/ runSyncNowNoUser
    \/ \E s \in SyncIds : SyncLoadFeedsOk(s)
    \/ \E s \in SyncIds : SyncLoadFeedsFails(s)
    \/ \E s \in SyncIds, i \in FeedSlots, json \in SyncPayloads : SyncFetchOk(s, i, json)
    \/ \E s \in SyncIds, i \in FeedSlots : SyncFetchFails(s, i)
    \/ \E s \in SyncIds, i \in FeedSlots : SyncFeedSetOk(s, i)
    \/ \E s \in SyncIds, i \in FeedSlots : SyncFeedSetFails(s, i)
    \/ \E s \in SyncIds, i \in FeedSlots : SyncErrSetOk(s, i)
    \/ \E s \in SyncIds : BwCommit(s)
    \/ \E s \in SyncIds : SyncCloseOk(s)
    \/ \E s \in SyncIds : SyncFinalOk(s)
    \/ \E s \in SyncIds : SyncFinalFails(s)
    \/ \E s \in SyncIds : SyncCatchOk(s)
    \/ \E s \in SyncIds : SyncCatchFails(s)

SpecSync == Init /\ [][NextSync]_vars

\* SpecRwClock: the read-then-write generation with the clock advancing
\* between the steps of its calls.
NextRwClock ==
    \/ Tick
    \/ pollNowRw("u2")
    \/ \E r \in RunIds : RwLoadFeeds(r)
    \/ \E r \in RunIds : RwSetRunning(r)
    \/ \E r \in RunIds, i \in FeedSlots, json \in LedgerPayloads : RwFetchOk(r, i, json)
    \/ \E r \in RunIds, i \in FeedSlots, k \in JobSlots : RwGet(r, i, k)
    \/ \E r \in RunIds, i \in FeedSlots, k \in JobSlots : RwSet(r, i, k)
    \/ \E r \in RunIds, i \in FeedSlots : RwCompany(r, i)
    \/ \E r \in RunIds : RwFinal(r)

SpecRwClock == Init /\ [][NextRwClock]_vars

\* SpecTwoSyncs: the scheduled sync and a manual sync of tenant u2 in one
\* behaviour, no call failing.
NextTwoSyncs ==
    \/ Tick
    \/ sync["hourly"].started < MaxSyncs /\ syncRecentJobsHourly
    \/ HourlyBeginUser
    \/ sync["manual"].started < MaxSyncs /\ runSyncNow("u2")
    \/ \E s \in SyncIds : SyncLoadFeedsOk(s)
    \/ \E s \in SyncIds, i \in FeedSlots, json \in LedgerPayloads : SyncFetchOk(s, i, json)
    \/ \E s \in SyncIds, i \in FeedSlots : SyncFeedSetOk(s, i)
    \/ \E s \in SyncIds : BwCommit(s)
    \/ \E s \in SyncIds : SyncCloseOk(s)
    \/ \E s \in SyncIds : SyncFinalOk(s)

SpecTwoSyncs == Init /\ [][NextTwoSyncs]_vars

\* FairSpec: Spec with the queue and every invocation scheduled fairly: as
\* long as some step can be taken, one is.
FairSpec == Init /\ [][Next]_vars /\ WF_vars(Next)

\* ------------------------------------------------------------ the ledger
RunUser(r) == CHOOSE u \in Users : r \in DOMAIN fetchRuns[u]
HasRunDoc(r) == \E u \in Users : r \in DOMAIN fetchRuns[u]
RunDoc(r) == fetchRuns[RunUser(r)][r]

\* FetchHistory's metric(n): the number, 0 for a field that is missing
metric(doc, field) == IF field \in DOMAIN doc THEN doc[field] ELSE 0

AllowedTransitions ==
    { <<"enqueued", "running">>, <<"enqueued", "enqueue_failed">>,
      <<"enqueued", "skipped_lock_active">>,
      <<"running", "done">>, <<"running", "done_with_errors">>,
      <<"running", "failed">> }

\* C1: every status change of a run document follows the run state machine:
\* a document is created as enqueued; enqueued moves only to running,
\* enqueue_failed or skipped_lock_active; running moves only to done,
\* done_with_errors or failed.
C1_StatusFollowsStateMachine ==
    [][\A u \in Users : \A r \in DOMAIN fetchRuns'[u] :
          IF r \in DOMAIN fetchRuns[u]
            THEN \/ fetchRuns'[u][r].status = fetchRuns[u][r].status
                 \/ <<fetchRuns[u][r].status, fetchRuns'[u][r].status>>
                        \in AllowedTransitions
            ELSE fetchRuns'[u][r].status = "enqueued"]_vars

\* C2: once a run document holds a terminal status, no later write changes
\* the status or writes a terminal status again: the document is not
\* written any more.
C2_TerminalReachedOnce ==
    [][\A u \in Users : \A r \in DOMAIN fetchRuns[u] :
          fetchRuns[u][r].status \in Terminal =>
              /\ fetchRuns'[u][r].status = fetchRuns[u][r].status
              /\ fetchRuns'[u][r].ver = fetchRuns[u][r].ver]_vars

\* An invocation that is about to load the feeds or to write "running" while
\* the run document is terminal was started by a second delivery: the first
\* delivery of a run passes these two points with the document enqueued.
Redelivered(r) ==
    /\ w[r].pc \in {"load", "setRunning"}
    /\ HasRunDoc(r)
    /\ RunDoc(r).status \in Terminal

\* C3: a delivery of a task whose run document is already terminal is a
\* no-op: it fetches no feed and writes no job, company or run document.
C3_RedeliveryIsNoOp ==
    [][\A r \in RunIds :
          Redelivered(r) =>
              /\ fetchRuns' = fetchRuns
              /\ jobs' = jobs
              /\ companies' = companies
              /\ w'[r].pc # "feeds"]_vars

\* C4: every run document that is created eventually holds a terminal
\* status.
C4_EveryRunEventuallyTerminal ==
    \A r \in RunIds :
        HasRunDoc(r) ~> (HasRunDoc(r) /\ RunDoc(r).status \in Terminal)

FailedFeeds(wr) == {i \in DOMAIN wr.ft : wr.ft[i].st = "failed"}

\* C6: the failure of one feed does not abort the run.  In a step of the
\* feed phase errorsCount grows by exactly the number of feeds that failed
\* in it (one), such a step leaves the run in the feed phase and the other
\* feeds where they were, and the run goes on to its final write only when
\* every loaded feed has been fetched and has ended, processed or failed;
\* the final write records the count and a status other than failed.
C6_FeedFailureIsIsolated ==
    [][\A r \in RunIds :
          /\ (w[r].pc = "feeds" /\ w'[r].pc \in {"feeds", "final", "catch"}) =>
                LET before == FailedFeeds(w[r])
                    after  == FailedFeeds(w'[r])
                IN  /\ before \subseteq after
                    /\ Cardinality(after \ before) <= 1
                    /\ w'[r].errorsCount =
                           w[r].errorsCount + Cardinality(after \ before)
                    /\ after # before =>
                          /\ w'[r].pc = "feeds"
                          /\ \A j \in DOMAIN w[r].ft :
                                j \notin after =>
                                    \/ w'[r].ft[j].st = w[r].ft[j].st
                                    \/ /\ w[r].ft[j].st = "pending"
                                       /\ w'[r].ft[j].st = "fetch"
          /\ w'[r].pc \in {"final", "returned"} =>
                /\ DOMAIN w'[r].ft = DOMAIN w'[r].feeds
                /\ AllSettled(w'[r])
                /\ w'[r].errorsCount = Cardinality(FailedFeeds(w'[r]))
          /\ w'[r].pc = "returned" =>
                /\ fetchRuns'[w'[r].uid][r].errorsCount = w'[r].errorsCount
                /\ fetchRuns'[w'[r].uid][r].status # "failed"]_vars

\* a run that returned with one feed failed and the other one processed
C6_Witness ==
    \E r \in RunIds :
        /\ w[r].pc = "returned"
        /\ \E i, j \in DOMAIN w[r].ft :
              /\ w[r].ft[i].st = "failed"
              /\ w[r].ft[j].st = "ok"
              /\ Len(w[r].ft[j].kept) > 0
        /\ RunDoc(r).status = "done_with_errors"
        /\ RunDoc(r).errorsCount = 1
        /\ RunDoc(r).processed = 1

\* C7: a run never takes up a feed that is inactive or archived: no feed in
\* the list the run loads, every feed of which it then fetches, is marked
\* inactive or archived in the store when the list is read.
C7_ArchivedFeedsNeverLoaded ==
    [][\A r \in RunIds :
          (w[r].pc = "load" /\ w'[r].pc = "setRunning") =>
              \A i \in DOMAIN w'[r].feeds :
                  LET d == feeds[w[r].uid][w'[r].feeds[i].id]
                  IN  d.active /\ d.archivedAt = NoMs]_vars

\* ---------------------------------------------------------- the job store
EffectiveMs(source, jobRaw) ==
    IF source = "greenhouse" THEN greenhouseEffectiveTime(jobRaw).ms
    ELSE IF source = "ashby" THEN ashbyEffectiveTime(jobRaw).ms
    ELSE NoMs

\* the postings of feed i of an invocation that have a timestamp earlier
\* than the cutoff of the feed's pass
TooOldPostings(wr, i) ==
    {k \in DOMAIN wr.ft[i].jobsRaw :
        LET ms == EffectiveMs(FeedSource(wr.feeds[i]), wr.ft[i].jobsRaw[k])
        IN  ms # NoMs /\ ms < wr.ft[i].nowMs - UPDATE_WINDOW_MS}

AtCutoffPostings(wr, i) ==
    {k \in DOMAIN wr.ft[i].jobsRaw :
        EffectiveMs(FeedSource(wr.feeds[i]), wr.ft[i].jobsRaw[k])
            = wr.ft[i].nowMs - UPDATE_WINDOW_MS}

SumOver(f, S) ==
    LET RECURSIVE Sum(_)
        Sum(T) == IF T = {} THEN 0
                  ELSE LET x == CHOOSE y \in T : TRUE IN f[x] + Sum(T \ {x})
    IN  Sum(S)

TooOldCount(wr) ==
    SumOver([i \in DOMAIN wr.ft |-> Cardinality(TooOldPostings(wr, i))],
            DOMAIN wr.ft)

\* C8: the recency gate.  A posting older than the cutoff is not among the
\* postings the run writes, a posting exactly at the cutoff is (location
\* permitting), and when the run has written its final status the run
\* document's skippedOld is the number of postings that were too old.
C8_RecencyGateCounted ==
    \A r \in RunIds :
        w[r].pc \in {"feeds", "final", "returned"} =>
            /\ \A i \in DOMAIN w[r].ft :
                  w[r].ft[i].st \in {"write", "company", "ok"} =>
                      LET t == w[r].ft[i] IN
                      /\ \A k \in TooOldPostings(w[r], i) :
                            \A x \in DOMAIN t.kept : t.kept[x] # t.jobsRaw[k]
                      /\ \A k \in AtCutoffPostings(w[r], i) :
                            \E x \in DOMAIN t.kept : t.kept[x] = t.jobsRaw[k]
            /\ w[r].pc = "returned" =>
                  metric(RunDoc(r), "skippedOld") = TooOldCount(w[r])

\* C10: the freshness timestamp stored for a job identity never decreases.
C10_FreshnessMonotone ==
    [][\A u \in Users : \A id \in DOMAIN jobs[u] :
          /\ id \in DOMAIN jobs'[u]
          /\ jobs'[u][id].updatedAtTs >= jobs[u][id].updatedAtTs]_vars

\* C5: a run whose main body completed is recorded as done_with_errors
\* exactly when at least one of its feeds failed and as done exactly when
\* none failed, in the fetchRuns ledger and in the syncRuns ledger.
C5_DoneIffNoFeedFailed ==
    /\ \A u \in Users : \A r \in DOMAIN fetchRuns[u] :
          LET d == fetchRuns[u][r] IN
          /\ d.status = "done" => d.errorsCount = 0
          /\ d.status = "done_with_errors" => d.errorsCount > 0
    /\ \A u \in Users : \A r \in DOMAIN syncRuns[u] :
          LET d == syncRuns[u][r] IN
          d.status = "DONE" => d.failedFeeds = 0

\* C9: no job document is written for a posting whose source timestamp is
\* absent or does not parse.
C9_NoTimestampNeverWritten ==
    \A u \in Users : \A id \in DOMAIN jobs[u] :
        LET d == jobs[u][id] IN
        /\ "sourceUpdatedIso" \in DOMAIN d =>
              toTimestampOrNull(d.sourceUpdatedIso) # NoMs
        /\ "updatedAtSource" \in DOMAIN d => d.updatedAtSource # "fallback"

\* ------------------------------------------------------------ the upsert
\* write task k of feed i of run r settles as written in this step
UpsertSettles(r, i, k) ==
    /\ w[r].pc = "feeds" /\ w'[r].pc = "feeds"
    /\ i \in DOMAIN w[r].ft /\ k \in DOMAIN w[r].ft[i].ws
    /\ w[r].ft[i].ws[k].st \in WriteBusy
    /\ w'[r].ft[i].ws[k].st = "done"

\* C11: an upsert of an identity that is already stored writes only when
\* the incoming freshness is strictly newer than the stored one, and only
\* then counts the posting as updated; it never counts it as added.
C11_UnchangedIsSkipped ==
    [][\A r \in RunIds, i \in FeedSlots, k \in JobSlots :
          (UpsertSettles(r, i, k) /\ JobDocIdOf(w[r], i, k) \in DOMAIN jobs[w[r].uid]) =>
             LET u        == w[r].uid
                 id       == JobDocIdOf(w[r], i, k)
                 incoming == Normalized(w[r], i, k).updatedAtTs
                 newer    == incoming > jobs[u][id].updatedAtTs
             IN  /\ w'[r].ft[i].createdCount = w[r].ft[i].createdCount
                 /\ jobs'[u][id] # jobs[u][id] => newer
                 /\ w'[r].ft[i].updatedCount > w[r].ft[i].updatedCount => newer]_vars

\* a document without the write counter of the model
Content(d) == [f \in DOMAIN d \ {"ver"} |-> d[f]]

\* run r1 has ended and stored the payload of its feed i, and run r2 of the
\* same tenant is working on the same payload of the same feed, with the
\* same candidates
SamePayloadAgain(r1, r2, i) ==
    /\ r1 # r2
    /\ w[r1].pc = "returned" /\ w[r2].pc = "feeds"
    /\ w[r1].uid = w[r2].uid
    /\ i \in DOMAIN w[r1].ft /\ i \in DOMAIN w[r2].ft
    /\ w[r1].ft[i].st = "ok"
    /\ w[r1].ft[i].jobsRaw = w[r2].ft[i].jobsRaw
    /\ w[r1].ft[i].kept = w[r2].ft[i].kept

\* C12: idempotence.  An upsert made by a run for a payload that an ended
\* run of the same tenant has already stored adds nothing (added = 0) and
\* leaves the job store as that run left it.
C12_SecondRunIdempotent ==
    [][\A r1 \in RunIds, r2 \in RunIds, i \in FeedSlots, k \in JobSlots :
          (SamePayloadAgain(r1, r2, i) /\ UpsertSettles(r2, i, k)) =>
             LET u == w[r2].uid IN
             /\ w'[r2].ft[i].createdCount = w[r2].ft[i].createdCount
             /\ DOMAIN jobs'[u] = DOMAIN jobs[u]
             /\ \A id \in DOMAIN jobs[u] :
                   Content(jobs'[u][id]) = Content(jobs[u][id])]_vars

\* write task k of feed i of run r has been written to the job store
Written(r, i, k) ==
    /\ w[r].pc \in {"feeds", "final", "returned"}
    /\ i \in DOMAIN w[r].ft /\ k \in DOMAIN w[r].ft[i].ws
    /\ w[r].ft[i].ws[k].st = "done"

\* C13: within one run no job identity is written twice, also when the
\* payload lists an upstream id twice or two feeds share a company key.
C13_OneWritePerIdentityPerRun ==
    \A r \in RunIds, i1 \in FeedSlots, k1 \in JobSlots, i2 \in FeedSlots, k2 \in JobSlots :
        (Written(r, i1, k1) /\ Written(r, i2, k2) /\ <<i1, k1>> # <<i2, k2>>) =>
            JobDocIdOf(w[r], i1, k1) # JobDocIdOf(w[r], i2, k2)

\* C15 as claimed: an ingestion upsert of an identity whose saved flag the
\* UI has set leaves the flag set.
C15_SavedNeverOverwritten ==
    [][\A r \in RunIds, i \in FeedSlots, k \in JobSlots :
          (/\ UpsertSettles(r, i, k)
           /\ JobDocIdOf(w[r], i, k) \in DOMAIN jobs[w[r].uid]
           /\ jobs[w[r].uid][JobDocIdOf(w[r], i, k)].saved) =>
             jobs'[w[r].uid][JobDocIdOf(w[r], i, k)].saved]_vars

\* C15, amended: every ingestion upsert writes saved = false; after the
\* upsert of an identity its stored flag is false, whatever the UI had set.
C15_UpsertResetsSaved ==
    [][\A r \in RunIds, i \in FeedSlots, k \in JobSlots :
          UpsertSettles(r, i, k) =>
             ~jobs'[w[r].uid][JobDocIdOf(w[r], i, k)].saved]_vars

\* two runs have ended, each with one candidate; the document of posting 1
\* has been written three times and its flag is false: created, bookmarked
\* by the user, then merged by the second run
C15_Witness ==
    /\ \A r \in RunIds :
          /\ w[r].pc = "returned" /\ w[r].uid = "u2"
          /\ Len(w[r].ft[1].kept) = 1
    /\ \E id \in DOMAIN jobs["u2"] :
          jobs["u2"][id].ver = 3 /\ ~jobs["u2"][id].saved

\* every feed task of the invocation has ended and no operation handed to
\* its bulk writer is still in flight
Flushed(wr) ==
    \A i \in DOMAIN wr.ft :
        /\ wr.ft[i].st \in {"ok", "failed"}
        /\ \A k \in DOMAIN wr.ft[i].ws : wr.ft[i].ws[k].st \notin WriteBusy

\* C16: whenever an invocation writes done, done_with_errors or failed to
\* its run document, the close of its bulk writer has completed: no write
\* handed to the writer is pending.
C16_CloseBeforeTerminal ==
    [][\A u \in Users : \A r \in DOMAIN fetchRuns[u] :
          (/\ fetchRuns'[u][r] # fetchRuns[u][r]
           /\ fetchRuns'[u][r].status \in {"done", "done_with_errors", "failed"}) =>
             (w[r].pc # "idle" /\ Flushed(w[r]))]_vars

\* a run has ended after a feed with two writes failed on one of them: the
\* other write was committed and the terminal status was written after it
C16_Witness ==
    \E r \in RunIds :
        /\ w[r].pc = "returned"
        /\ RunDoc(r).status = "done_with_errors"
        /\ \E i \in DOMAIN w[r].ft :
              /\ w[r].ft[i].st = "failed"
              /\ \E k1, k2 \in DOMAIN w[r].ft[i].ws :
                    w[r].ft[i].ws[k1].st = "error" /\ w[r].ft[i].ws[k2].st = "done"

\* C14: however the upserts of an identity race, the identity is counted
\* as new at most once: over the ended runs of a tenant the postings
\* counted as added are no more than the job documents there are.
C14_CountedNewOnce ==
    \A u \in Users :
        SumOver([r \in DOMAIN fetchRuns[u] |->
                    metric(fetchRuns[u][r], "createdCount")
                      + metric(fetchRuns[u][r], "newCount")],
                DOMAIN fetchRuns[u])
          <= Cardinality(DOMAIN jobs[u])

\* --------------------------------------------------------- the limiters
\* feeds of the invocation that hold a slot of limitFeed
FeedsInFlight(wr) == {i \in DOMAIN wr.ft : wr.ft[i].st \in FeedBusy}

\* C17: an invocation never has more than FEED_CONCURRENCY feeds being
\* fetched or processed at the same time.
C17_FeedConcurrencyBounded ==
    \A r \in RunIds :
        w[r].pc = "feeds" => Cardinality(FeedsInFlight(w[r])) <= FEED_CONCURRENCY

\* a tenant with more feeds than FEED_CONCURRENCY: the limiter is full and a
\* feed waits for a slot
C17_Witness ==
    \E r \in RunIds :
        /\ w[r].pc = "feeds"
        /\ Len(w[r].feeds) > FEED_CONCURRENCY
        /\ Cardinality(FeedsInFlight(w[r])) = FEED_CONCURRENCY
        /\ \E i \in DOMAIN w[r].ft : w[r].ft[i].st = "pending"

\* job upserts of the invocation that hold a slot of some limitWrite
WritesInFlight(wr) ==
    {<<i, k>> \in (DOMAIN wr.ft) \X ManySlots :
        k \in DOMAIN wr.ft[i].ws /\ wr.ft[i].ws[k].st \in WriteBusy}

\* C18: an invocation never has more than JOB_WRITE_CONCURRENCY job upserts
\* in flight, counted over all its feeds.
C18_WriteConcurrencyBounded ==
    \A r \in RunIds :
        w[r].pc = "feeds" =>
            Cardinality(WritesInFlight(w[r])) <= JOB_WRITE_CONCURRENCY

\* ------------------------------------------------------------ the fetch
\* the feed tasks whose fetchJson call has ended
Fetched(r) ==
    IF w[r].pc \in {"feeds", "final", "returned"}
      THEN {i \in DOMAIN w[r].ft : w[r].ft[i].seen # <<>>}
      ELSE {}

\* the call of feed task i ended by throwing
FetchThrew(r, i) == w[r].ft[i].st = "failed" /\ w[r].ft[i].jobsRaw = <<>>

\* the retry set of the fetch policy
RetryStatuses == {408, 425, 429, 500, 502, 503, 504}

\* a retryable failure as the fetch policy lists them: timeout / abort, a
\* network error (DNS, connection reset), or a status of the retry set
PolicyRetryable(resp) ==
    \/ resp.kind \in {"abort", "neterr"}
    \/ resp.kind = "http" /\ resp.status \in RetryStatuses

\* C19 as claimed: no fetch is retried more than 3 times, and a fetch whose
\* every attempt fails retryably is retried 3 times before it throws.
C19_RetriedThreeTimes ==
    \A r \in RunIds : \A i \in Fetched(r) :
        LET seen == w[r].ft[i].seen IN
        /\ Len(seen) - 1 <= 3
        /\ (FetchThrew(r, i) /\ \A a \in DOMAIN seen : PolicyRetryable(seen[a]))
              => Len(seen) - 1 = 3

\* a failure the code retries: an abort, a status of the retry set, or an
\* error whose message names ECONNRESET, ETIMEDOUT, EAI_AGAIN or ENOTFOUND
NamedRetryable(resp) ==
    \/ resp.kind = "abort"
    \/ resp.kind = "http" /\ resp.status \in RetryStatuses
    \/ resp.named

\* C19, amended: no fetch is retried more than 2 times (3 requests); a fetch
\* whose every request fails with an abort, a status of the retry set or an
\* error whose message names one of the four network error codes is retried
\* 2 times before it throws; and a fetch ends only on an answer that
\* parses or on a failure, never in between.
C19_RetriedTwice ==
    \A r \in RunIds : \A i \in Fetched(r) :
        LET seen == w[r].ft[i].seen IN
        /\ Len(seen) - 1 <= 2
        /\ (FetchThrew(r, i) /\ \A a \in DOMAIN seen : NamedRetryable(seen[a]))
              => Len(seen) - 1 = 2
        /\ \A a \in 1 .. (Len(seen) - 1) : seen[a].kind # "ok"
        /\ FetchThrew(r, i) <=> seen[Len(seen)].kind # "ok"

\* a feed failed after three requests that each met a retryable failure
C19_Witness ==
    \E r \in RunIds : \E i \in Fetched(r) :
        /\ FetchThrew(r, i)
        /\ Len(w[r].ft[i].seen) = 3
        /\ \A a \in 1 .. 3 : NamedRetryable(w[r].ft[i].seen[a])
        /\ w[r].ft[i].seen[1] = HttpResp(503, FALSE)

\* C20: a fetch whose first request fails with a status outside the retry
\* set or with a body that is not JSON makes no second request and throws;
\* the feed is counted once, with one error sample, and the run of a
\* tenant with this one feed ends done_with_errors.
C20_NonRetryableNotRetried ==
    \A r \in RunIds : \A i \in Fetched(r) :
        LET seen == w[r].ft[i].seen
            nonRetryable ==
                \/ seen[1].kind = "badjson"
                \/ seen[1].kind = "http" /\ seen[1].status \notin RetryStatuses
        IN  nonRetryable =>
              /\ Len(seen) = 1
              /\ FetchThrew(r, i)
              /\ w[r].errorsCount = 1 /\ Len(w[r].errorSamples) = 1
              /\ w[r].pc = "returned" =>
                    /\ RunDoc(r).status = "done_with_errors"
                    /\ RunDoc(r).errorsCount = 1
                    /\ Len(RunDoc(r).errorSamples) = 1

\* -------------------------------------------------------- the dispatcher
\* run documents of tenant u that the step creates
NewRuns(u) == (DOMAIN fetchRuns'[u]) \ (DOMAIN fetchRuns[u])

\* the step enqueues the message of run r
Enqueues(r) == tasks[r].st = "none" /\ tasks'[r].st # "none"

\* a message is enqueued only by the enqueueUserRun call that created its
\* run document, as that call's last step, and carries the run's tenant
OneMessagePerRun ==
    \A r \in RunIds :
        Enqueues(r) =>
            /\ enq[r].st = "created" /\ enq'[r].st = "ok"
            /\ r \in DOMAIN fetchRuns[tasks'[r].uid]
            /\ \A q \in RunIds \ {r} : tasks'[q] = tasks[q]

\* a run document of type scheduled is created only for a tenant the tick
\* has not handled yet, and that tenant is then handled
ScheduledOnlyByTick ==
    \A u \in Users : \A r \in NewRuns(u) :
        fetchRuns'[u][r].runType = "scheduled" =>
            u \in sched /\ sched' = sched \ {u}

EnqueueThrew(r) == enq[r].st = "threw"

\* C22: whenever enqueueUserRun fails to submit the task after it created
\* the run document (the queue rejects the message, or building the target
\* URI fails), the run document has status enqueue_failed with the error
\* recorded; no run is left enqueued without a message in the queue.
C22_EnqueueFailureRecorded ==
    \A r \in RunIds :
        /\ EnqueueThrew(r) =>
              /\ RunDoc(r).status = "enqueue_failed"
              /\ "enqueueError" \in DOMAIN RunDoc(r)
        /\ (HasRunDoc(r) /\ RunDoc(r).status = "enqueued"
                /\ enq[r].st \notin {"created", "catch"}) =>
              tasks[r].st # "none"

\* tenants the hourly invocation has still to handle
HourlyTodo ==
    IF "todo" \in DOMAIN sync["hourly"] THEN sync["hourly"].todo ELSE <<>>

\* the step handles tenants of the scheduler tick: it takes one tenant off
\* the tick's list and leaves every other tenant on it
TickKeepsOthers ==
    (sched # {} /\ sched' # sched) => \E u \in sched : sched' = sched \ {u}

\* the step ends the hourly invocation: no tenant is left unhandled
HourlyEndsWithAll ==
    (sync["hourly"].pc # "idle" /\ sync'["hourly"].pc = "idle") =>
        HourlyTodo = <<>>

\* C23: within one scheduler tick, a failure while handling one tenant
\* (creating its run document, enqueueing, running its sync, or writing its
\* ledger record) never prevents another tenant from being handled in that
\* tick.
C23_TenantFailureIsIsolated ==
    [][TickKeepsOthers /\ HourlyEndsWithAll]_vars

\* the step is a pollNowV2 call that throws before a run document exists
RpcThrows == Len(rpcErrors') > Len(rpcErrors)

\* a call rejected as unauthenticated, or failing before its run document
\* exists, creates no run document and no message
RejectedCallWritesNothing ==
    RpcThrows => fetchRuns' = fetchRuns /\ tasks' = tasks /\ enq' = enq

\* a run document of type manual is created alone, under the tenant of the
\* call's req.auth.uid
ManualUnderCaller ==
    \A u \in Users : \A r \in NewRuns(u) :
        fetchRuns'[u][r].runType = "manual" =>
            /\ enq'[r].uid = u /\ enq'[r].runType = "manual"
            /\ NewRuns(u) = {r}
            /\ \A v \in Users \ {u} : NewRuns(v) = {}

\* enqueueUserRun returns {ok: true, runId: r, status: "enqueued"} in the
\* step that enqueues the message of run r, which names the caller's tenant
\* and the run type of the document
ReturnsEnqueued ==
    \A r \in RunIds :
        (enq[r].st # "ok" /\ enq'[r].st = "ok") =>
            /\ Enqueues(r)
            /\ tasks'[r].uid = enq[r].uid /\ tasks'[r].runType = enq[r].runType
            /\ r \in DOMAIN fetchRuns[enq[r].uid]
            /\ fetchRuns[enq[r].uid][r].runType = enq[r].runType

\* every call of an authenticated caller goes through: none throws
CallsOfTenantsSucceed ==
    /\ \A i \in DOMAIN rpcErrors : rpcErrors[i].auth = Null
    /\ \A r \in RunIds :
          enq[r].runType = "manual" => enq[r].st \in {"created", "ok"}

LedgerCounters ==
    {"found", "candidates", "skippedOld", "noTimestamp", "writes", "added",
     "updated", "skippedUnchanged", "processed"}

\* the statuses with which the worker ends a run
WorkerTerminal == {"done", "done_with_errors", "failed"}

\* C25: counter conservation at terminal time: every run document with a
\* terminal status written by the worker carries the ledger's counters, and
\* in it found = candidates + skippedOld + noTimestamp, writes = added +
\* updated, and added + updated + skippedUnchanged + noTimestamp <=
\* candidates <= found <= processed.
C25_CountersConserved ==
    \A u \in Users : \A r \in DOMAIN fetchRuns[u] :
        LET d == fetchRuns[u][r] IN
        d.status \in WorkerTerminal =>
            /\ LedgerCounters \subseteq DOMAIN d
            /\ d.found = d.candidates + d.skippedOld + d.noTimestamp
            /\ d.writes = d.added + d.updated
            /\ d.added + d.updated + d.skippedUnchanged + d.noTimestamp
                  <= d.candidates
            /\ d.candidates <= d.found
            /\ d.found <= d.processed

\* ------------------------------------------------------- error samples
\* the run documents that carry error samples
WithSamples(u) == {r \in DOMAIN fetchRuns[u] : "errorSamples" \in DOMAIN fetchRuns[u][r]}

\* C26: the errorSamples list persisted on a run document never holds more
\* than 8 entries, whatever the number of failing feeds; failures beyond
\* the bound are still counted, so errorsCount >= length(errorSamples).
C26_AtMostEightSamples ==
    \A u \in Users : \A r \in WithSamples(u) :
        /\ Len(fetchRuns[u][r].errorSamples) <= 8
        /\ fetchRuns[u][r].errorsCount >= Len(fetchRuns[u][r].errorSamples)

\* C26 (amended): the errorSamples list persisted on a run document never
\* holds more than MAX_ERROR_SAMPLES (10) entries, whatever the number of
\* failing feeds; failures beyond the bound are still counted, so
\* errorsCount >= length(errorSamples).
C26_AtMostMaxErrorSamples ==
    \A u \in Users : \A r \in WithSamples(u) :
        /\ Len(fetchRuns[u][r].errorSamples) <= MAX_ERROR_SAMPLES
        /\ fetchRuns[u][r].errorsCount >= Len(fetchRuns[u][r].errorSamples)

\* a run in which more feeds failed than samples are kept: the document
\* counts them all and holds MAX_ERROR_SAMPLES samples
C26_Witness ==
    \E u \in Users : \E r \in WithSamples(u) :
        /\ fetchRuns[u][r].status = "done_with_errors"
        /\ fetchRuns[u][r].errorsCount > MAX_ERROR_SAMPLES
        /\ Len(fetchRuns[u][r].errorSamples) = MAX_ERROR_SAMPLES

\* ------------------------------------------------- the location filter
\* the postings of feed i of invocation r that passed the filter loop, once
\* the feed's payload has been fetched
KeptPostings(r, i) ==
    IF w[r].pc \in {"feeds", "final", "returned"} /\ i \in DOMAIN w[r].ft
          /\ w[r].ft[i].st \in {"write", "company", "ok"}
      THEN {w[r].ft[i].kept[x] : x \in DOMAIN w[r].ft[i].kept}
      ELSE {}

\* the location text says remote, names a country of the exclude list and
\* has no US-remote phrase
RemoteAbroad(loc) ==
    LET t == LocFacts(loc) IN t.remote /\ t.excluded /\ ~t.usRemote

\* C27: a posting whose location text says remote together with a non-US
\* country of the exclude list and no US-remote phrasing ("Remote -
\* Germany") is rejected by the location filter and produces no job write,
\* also when the posting carries isRemote = true.
C27_RemoteAbroadRejected ==
    \A r \in RunIds : \A i \in FeedSlots :
        \A j \in KeptPostings(r, i) : ~RemoteAbroad(j.loc)

\* the acceptance rules of the location stage
AcceptanceRule(j) ==
    LET t == LocFacts(j.loc) IN
    \/ j.isRemote
    \/ j.loc # "" /\ (t.kw \/ t.usWord)
    \/ j.loc # "" /\ t.city
    \/ j.loc # "" /\ t.state
    \/ j.loc # "" /\ t.remote /\ (t.usRemote \/ ~t.excluded)

\* C28: filter soundness: every posting that passes the location stage of
\* processOneFeed satisfies at least one acceptance rule (explicit remote
\* flag, US keyword, major US city, US state code, or remote text without
\* an excluded country); a posting with an empty or missing location and no
\* remote flag is not accepted.
C28_FilterSound ==
    \A r \in RunIds : \A i \in FeedSlots :
        \A j \in KeptPostings(r, i) :
            /\ AcceptanceRule(j)
            /\ ~(j.loc = "" /\ ~j.isRemote)

\* ------------------------------------------------------- fatal errors
\* the step in which the handler of run r rethrows an error that escaped
\* processUserFeeds
HandlerThrows(r) == w[r].pc # "threw" /\ w'[r].pc = "threw"

\* the run document says failed and carries the error message
MarkedFailed(d) == d.status = "failed" /\ "error" \in DOMAIN d

FeedDocOf(r, i) == feeds[w[r].uid][w[r].feeds[i].id]

\* C30: after a run finishes, for every feed the run attempted, the feed
\* document's lastError is the failure message if the feed failed in the
\* run and null if the feed was processed successfully; a failed feed is
\* never left with lastError unset or cleared.
C30_LastErrorTracksOutcome ==
    \A r \in RunIds :
        w[r].pc = "returned" =>
            \A i \in DOMAIN w[r].ft :
                /\ w[r].ft[i].st = "failed" => FeedDocOf(r, i).lastError # Null
                /\ w[r].ft[i].st = "ok" => FeedDocOf(r, i).lastError = Null

\* ------------------------------------------------- the effective time
\* the later of the two Greenhouse timestamps that parse, NoMs when
\* neither does
LaterOfMs(j) ==
    LET a == parseIsoToMs(j.updated_at)
        b == parseIsoToMs(j.first_published)
    IN  IF a >= b THEN a ELSE b

\* the freshness a posting of the given source is to be stored with
LaterOrPublishedMs(source, j) ==
    IF source = "greenhouse" THEN LaterOfMs(j) ELSE parseIsoToMs(j.publishedAt)

\* the document stored for posting j carries the posting's effective time
StoredWithEffectiveTime(u, id, source, j) ==
    /\ id \in DOMAIN jobs[u]
    /\ jobs[u][id].updatedAtTs = LaterOrPublishedMs(source, j)

\* the queue-driven worker: a posting whose effective time is inside the
\* window passes the recency test, and a written posting carries it
EffectiveInWorker ==
    \A r \in RunIds :
        w[r].pc = "feeds" =>
            \A i \in DOMAIN w[r].ft :
                w[r].ft[i].st \in {"write", "company", "ok"} =>
                    LET t   == w[r].ft[i]
                        src == FeedSource(w[r].feeds[i])
                    IN  /\ \A x \in DOMAIN t.jobsRaw :
                              (/\ src \in {"greenhouse", "ashby"}
                               /\ LaterOrPublishedMs(src, t.jobsRaw[x]) >= t.nowMs - UPDATE_WINDOW_MS
                               /\ t.jobsRaw[x].loc = "New York, NY")
                                  => \E k \in DOMAIN t.kept : t.kept[k] = t.jobsRaw[x]
                        /\ \A k \in DOMAIN t.ws :
                              t.ws[k].st = "done" =>
                                  StoredWithEffectiveTime(w[r].uid, JobDocIdOf(w[r], i, k),
                                                          src, t.kept[k])

\* the read-then-write worker: a written posting carries its effective time
EffectiveInReadThenWrite ==
    \A r \in RunIds :
        rw[r].pc = "feeds" =>
            \A i \in DOMAIN rw[r].ft :
                rw[r].ft[i].st \in {"write", "company", "ok"} =>
                    \A k \in DOMAIN rw[r].ft[i].ws :
                        (/\ rw[r].ft[i].ws[k].st = "done"
                         /\ rw[r].feeds[i].url.kind = "greenhouse"
                         /\ LaterOfMs(rw[r].ft[i].kept[k]) # NoMs)
                            => StoredWithEffectiveTime(rw[r].uid, RwDocId(rw[r], i, k),
                                                       "greenhouse", rw[r].ft[i].kept[k])

\* C31: the effective time of a Greenhouse posting is the later of
\* updated_at and first_published (the one that parses when only one does),
\* that of an Ashby posting is publishedAt; a Greenhouse posting whose
\* first_published is inside the window is kept, and stored with that time,
\* even when its updated_at is absent or older.
C31_EffectiveTimeIsLaterOfTwo ==
    EffectiveInWorker /\ EffectiveInReadThenWrite

\* ------------------------------------------------- retried job writes
\* deadline-exceeded, resource-exhausted, aborted, internal, unavailable
TransientCodes == {4, 8, 10, 13, 14}

\* the job writes of the invocations that have write tasks
JobWrites ==
    {x \in RunIds \X FeedSlots \X JobSlots :
        /\ w[x[1]].pc \in {"feeds", "final", "returned"}
        /\ x[2] \in DOMAIN w[x[1]].ft
        /\ x[3] \in DOMAIN w[x[1]].ft[x[2]].ws}

\* C32: the bulk writer retries a failed job write only for the transient
\* error classes (deadline-exceeded, resource-exhausted, aborted, internal,
\* unavailable), up to 5 attempts; another error is not retried and fails
\* the feed, which the run counts in errorsCount.
C32_TransientWritesGetFiveAttempts ==
    \A x \in JobWrites :
        LET t  == w[x[1]].ft[x[2]]
            op == t.ws[x[3]]
        IN  /\ (op.st \in {"create", "set"} /\ op.att > 0)
                  => op.err \in TransientCodes
            /\ op.st = "error" =>
                  /\ op.err \in TransientCodes => op.att = 5
                  /\ t.st = "failed"
                  /\ w[x[1]].errorsCount >= 1

\* ------------------------------------------------ the company documents
\* the company document of feed i of invocation r was written by the pass
CompanyRefreshed(r, i) ==
    LET key == feedCompanyKey(w[r].feeds[i]) IN
    /\ key \in DOMAIN companies[w[r].uid]
    /\ companies[w[r].uid][key].lastSeenAt >= w[r].ft[i].nowMs

\* C33: every feed that a run processed without error has its company
\* document upserted (lastSeenAt refreshed), also when none of the feed's
\* postings passed the recency and location filters.
C33_CompanyUpsertedForEveryOkFeed ==
    \A r \in RunIds :
        w[r].pc \in {"feeds", "final", "returned"} =>
            \A i \in DOMAIN w[r].ft :
                w[r].ft[i].st = "ok" => CompanyRefreshed(r, i)

\* ------------------------------------------------ runSyncNow's answers
\* the answer sent by the step, when the step sends one
Answers == Len(httpRes') = Len(httpRes) + 1
Answer == httpRes'[Len(httpRes')]

\* C34: runSyncNow responds only on completion: at the time it sends its
\* response the run document has status DONE or FAILED, never RUNNING; a
\* request without a tenant id is rejected with 400 and writes no run
\* document.
C34_RespondsOnlyOnCompletion ==
    [][Answers =>
          IF Answer.status = 400
            THEN Answer.uid = "" /\ syncRuns' = syncRuns
            ELSE /\ Answer.runId \in DOMAIN syncRuns'[Answer.uid]
                 /\ syncRuns'[Answer.uid][Answer.runId].status =
                       (IF Answer.status = 200 THEN "DONE" ELSE "FAILED")]_vars

\* a manual sync has answered 200 over a DONE document, and a request
\* without userId has been answered 400
C34_Witness ==
    /\ \E k \in DOMAIN httpRes : httpRes[k].status = 400
    /\ \E k \in DOMAIN httpRes :
          /\ httpRes[k].status = 200
          /\ syncRuns[httpRes[k].uid][httpRes[k].runId].status = "DONE"

\* ------------------------------------------- the write counters of a run
\* the job writes of invocation r that the store has committed
CommittedWrites(r) ==
    {x \in {r} \X FeedSlots \X JobSlots :
        /\ x[2] \in DOMAIN w[r].ft
        /\ x[3] \in DOMAIN w[r].ft[x[2]].ws
        /\ w[r].ft[x[2]].ws[x[3]].st = "done"}

\* C35: when processUserFeeds writes done or done_with_errors, createdCount
\* + updatedCount of the document is the number of job-document writes the
\* run committed: the writes committed for a feed that failed later are
\* included, a write that was not committed is not.
C35_CountersAreCommittedWrites ==
    [][\A r \in RunIds :
          (w[r].pc = "final" /\ w'[r].pc = "returned") =>
              LET d == fetchRuns'[w[r].uid][r]
              IN  d.createdCount + d.updatedCount = Cardinality(CommittedWrites(r))]_vars

\* ------------------------------------------ the document before the task
\* the run document of run r under tenant u
RunDocUnder(u, r) == r \in DOMAIN fetchRuns[u]

\* C36: enqueueUserRun enqueues the task {uid, runType, runId} only after
\* the run document was created with status enqueued, so every invocation
\* of the worker finds its run document present and the worker's first
\* ledger write never creates the document: a run document comes into being
\* only in createFetchRun, as enqueued.
C36_DocumentBeforeTask ==
    [][/\ \A r \in RunIds :
            /\ (tasks[r].st = "none" /\ tasks'[r].st # "none") =>
                  /\ tasks'[r].uid = enq[r].uid
                  /\ RunDocUnder(enq[r].uid, r)
                  /\ fetchRuns[enq[r].uid][r].status = "enqueued"
            /\ (w[r].pc = "idle" /\ w'[r].pc # "idle") =>
                  RunDocUnder(w'[r].uid, r)
            /\ w[r].pc \notin {"idle", "returned", "threw"} =>
                  RunDocUnder(w[r].uid, r) /\ r \in DOMAIN fetchRuns'[w[r].uid]
       /\ \A u \in Users :
            \A r \in DOMAIN fetchRuns'[u] \ DOMAIN fetchRuns[u] :
                /\ r = nextRun /\ nextRun' = nextRun + 1
                /\ fetchRuns'[u][r].status = "enqueued"
                /\ tasks[r].st = "none" /\ w[r].pc = "idle"]_vars

\* the worker of a run has made its first ledger write, running, on the
\* document that enqueueUserRun created
C36_Witness ==
    \E r \in RunIds :
        /\ tasks[r].st = "dispatched"
        /\ w[r].pc = "feeds"
        /\ RunDocUnder(w[r].uid, r)
        /\ fetchRuns[w[r].uid][r].status = "running"
        /\ fetchRuns[w[r].uid][r].runType = enq[r].runType

\* ---------------------------------------------- the documents of two runs
\* the invocation is in a run of tenant u
InRunOf(s, u) ==
    /\ sync[s].pc \notin {"idle", "next"}
    /\ sync[s].uid = u

\* C37: two runs for the same tenant by syncRecentJobsHourly and / or
\* runSyncNow always write to two distinct syncRuns documents.
C37_TwoRunsTwoDocuments ==
    \A u \in Users :
        (InRunOf("hourly", u) /\ InRunOf("manual", u)) =>
            sync["hourly"].runId # sync["manual"].runId

\* ------------------------------------------------------ tenant isolation
\* the documents under users/{u}
TenantDocs(u) == <<feeds[u], companies[u], jobs[u], fetchRuns[u]>>

\* the step is one of the worker handling run r
WorkerStep(r) == enq[r].st # "none" /\ w'[r] # w[r]

\* C38: tenant isolation: handling a run for tenant A touches only
\* documents under users/A.  A step of the run's worker works under the
\* tenant the run was created for, loads that tenant's feed documents and
\* leaves every feed, company, job and run document of another tenant as
\* it was.
C38_RunTouchesOwnTenantOnly ==
    [][\A r \in RunIds :
          WorkerStep(r) =>
              LET A == enq[r].uid IN
              /\ \A u \in Users \ {A} : TenantDocs(u)' = TenantDocs(u)
              /\ w'[r].pc # "idle" => w'[r].uid = A
              /\ (w[r].pc = "load" /\ w'[r].pc = "setRunning") =>
                    \A i \in DOMAIN w'[r].feeds :
                        /\ w'[r].feeds[i].id \in DOMAIN feeds[A]
                        /\ feeds[A][w'[r].feeds[i].id].url = w'[r].feeds[i].url]_vars

\* a run of tenant u2 has ended with a job and a company written under u2,
\* and tenant u1 has neither
C38_Witness ==
    \E r \in RunIds :
        /\ enq[r].uid = "u2"
        /\ w[r].pc = "returned"
        /\ DOMAIN jobs["u2"] # {} /\ DOMAIN companies["u2"] # {}
        /\ DOMAIN jobs["u1"] = {} /\ DOMAIN companies["u1"] = {}
        /\ fetchRuns["u2"][r].status = "done"

\* ------------------------------------------ feeds of an unknown source
\* the feeds of the invocations whose source is neither greenhouse nor
\* ashby and whose task has ended
OtherSourceEnded ==
    {x \in RunIds \X FeedSlots :
        /\ w[x[1]].pc \in {"feeds", "final", "returned"}
        /\ x[2] \in DOMAIN w[x[1]].ft
        /\ FeedSource(w[x[1]].feeds[x[2]]) \notin {"greenhouse", "ashby"}
        /\ w[x[1]].ft[x[2]].st \in {"ok", "failed"}}

\* feed i of invocation r has no job write and no company write
WritesNothing(r, i) ==
    LET key == feedCompanyKey(w[r].feeds[i]) IN
    /\ w[r].ft[i].kept = <<>>
    /\ w[r].ft[i].ws = <<>>
    /\ key \notin DOMAIN companies[w[r].uid]
    /\ \A id \in DOMAIN jobs[w[r].uid] : jobs[w[r].uid][id].companyKey # key

\* the last answer fetchJson met for feed i of invocation r was a body that
\* parsed
FetchReturned(r, i) ==
    LET seen == w[r].ft[i].seen IN
    seen # <<>> /\ seen[Len(seen)].kind = "ok"

\* C39: a feed whose effective source is neither greenhouse nor ashby
\* contributes no job write and no company write in processOneFeed and is
\* not recorded as an error: it is counted as processed, with processed = 0.
C39_OtherSourceIsNoError ==
    \A x \in OtherSourceEnded :
        /\ WritesNothing(x[1], x[2])
        /\ w[x[1]].ft[x[2]].st = "ok"
        /\ w[x[1]].errorsCount = Cardinality(FailedFeeds(w[x[1]]) \ {x[2]})

\* C39 (amended): a feed whose effective source is neither greenhouse nor
\* ashby contributes no job write and no company write in processOneFeed;
\* when its fetch succeeds it is not recorded as an error and is counted as
\* processed with processed = 0 whatever the payload holds, and when its
\* fetch fails it is recorded as an error like any other feed.
C39_OtherSourceWritesNothing ==
    \A x \in OtherSourceEnded :
        /\ WritesNothing(x[1], x[2])
        /\ w[x[1]].ft[x[2]].st = (IF FetchReturned(x[1], x[2]) THEN "ok" ELSE "failed")
        /\ w[x[1]].errorsCount = Cardinality(FailedFeeds(w[x[1]]))

\* a run has ended done: its feed of another source answered with a fresh
\* posting, of which nothing was kept
C39_Witness ==
    \E x \in OtherSourceEnded :
        /\ w[x[1]].pc = "returned"
        /\ w[x[1]].ft[x[2]].st = "ok"
        /\ w[x[1]].ft[x[2]].jobsRaw # <<>>
        /\ w[x[1]].ft[x[2]].kept = <<>>
        /\ RunDoc(x[1]).status = "done"
        /\ RunDoc(x[1]).processed <= 1

\* ------------------------------------------- the creation time of a job
\* C40: once a job document is created, no later ingestion upsert of the
\* same identity changes its createdAt or its firstSeenAt: the write that
\* finds the document there merges the fresh fields and leaves both.
C40_CreationTimesAreKept ==
    [][\A u \in Users :
          \A id \in DOMAIN jobs[u] :
              /\ id \in DOMAIN jobs'[u]
              /\ jobs'[u][id].createdAt = jobs[u][id].createdAt
              /\ jobs'[u][id].firstSeenAt = jobs[u][id].firstSeenAt]_vars
====
